---- MODULE Spec2Model ----
(***************************************************************************)
(* Verification model of the ACP adapter runtime (cursor-agent-acp):       *)
(*   - ConnectionPool          src/src/transport/connection-pool.ts        *)
(*   - ToolCallManager         src/src/tools/tool-call-manager.ts          *)
(*   - ToolRegistry dispatcher src/unnamed/part_001                        *)
(*   - terminal manager/handle (after spec.md 4.7 and the terminal tests)  *)
(*   - HTTP stream adapter     src/src/transport/http-stream.ts            *)
(*   - permissions broker      (after spec.md 4.4 and permissions.test.ts) *)
(* Asynchronous functions are split at their await points: every action    *)
(* is one run-to-completion stretch of the JavaScript event loop.          *)
(***************************************************************************)
EXTENDS Integers, Sequences, FiniteSets, TLC

(***************************************************************************)
(* Bounds of the model                                                     *)
(***************************************************************************)
NumAcquirers == 3
MaxConnections == 2

NumExecs == 2
NumTerms == 3
MaxConcurrentTerminals == 2
MaxOps == 4
MaxNotifs == 2
NumPermReqs == 3

\* largest configured fsConfig.retries
MaxRetries == 2

\* longest `files` array of a tool call's parameters
MaxFiles == 2

\* longest command list given to executeSequential
MaxCommands == 3

\* longest option list of a permission request
MaxOptions == 3

\* sessions created by the session manager
NumModeSessions == 2

Acquirers == 1..NumAcquirers
Execs == 1..NumExecs
Terms == 1..NumTerms
PermReqs == 1..NumPermReqs
Sessions == {"s1", "s2"}
NoSession == "none"

(***************************************************************************)
(* State                                                                   *)
(***************************************************************************)
VARIABLES
  \* ---- ConnectionPool ----
  maxConnections,    \* config.maxConnections, fixed at construction
  connections,       \* Map<string, PooledConnection>, in insertion order
  waitingQueue,      \* WaitingRequest[]: the acquirer each entry belongs to
  metrics,           \* ConnectionPoolMetrics
  nextConnectionId,
  cleanupInterval,   \* TRUE while the reaper interval is installed
  acq,               \* per acquire() call: position, connection, timer, outcome
  sd,                \* the shutdown() call: position and id snapshot
  \* ---- ToolCallManager / ToolRegistry ----
  activeToolCalls,   \* Map<toolCallId, ToolCallInfo>
  toolCallCounter,
  notifs,            \* session/update notifications sent, per toolCallId
  evictTimers,       \* toolCallIds with a pending 30 s clean-up timer
  exec,              \* per executeToolWithSession call: position and locals
  cancel,            \* the cancelSessionToolCalls call: position and locals
  sess,              \* per session: cancel issued/done, counter at the cancel
  \* ---- terminal manager / handles ----
  activeTerminals,   \* ids of the terminals the manager tracks
  termCounter,       \* ids handed out by the client's terminal/create
  term,              \* per createTerminal caller: position, handle, drops
  \* ---- HTTP stream adapter ----
  responseBuffer,
  responseWritten,
  wstate,            \* state of the WritableStream
  responses,         \* writeHead/end pairs issued on the ServerResponse
  wlog,              \* calls made on the writable side and how they settled
  rstate,            \* state of the ReadableStream
  rqueue,            \* chunks enqueued on the readable side
  \* ---- permissions broker ----
  permReq,           \* per permission request: position, session, outcome
  permLast,          \* the broker operation that ran last
  \* ---- terminal helpers ----
  helper,            \* one helper call: position, calls made, notifications
  \* ---- one dispatcher call with its inputs and failure points ----
  disp,
  \* ---- one filesystem tool call (read_file / write_file) ----
  fs,
  \* ---- one call each of the registry's location extraction, of
  \* executeSequential and of the default permission policy; the session
  \* modes; the registry's providers ----
  loc, seqx, pol, modes, reg

poolVars == <<maxConnections, connections, waitingQueue, metrics,
              nextConnectionId, cleanupInterval, acq, sd>>

tcVars == <<activeToolCalls, toolCallCounter, notifs, evictTimers, exec,
            cancel, sess>>

termVars == <<activeTerminals, termCounter, term>>

httpVars == <<responseBuffer, responseWritten, wstate, responses, wlog,
              rstate, rqueue>>

permVars == <<permReq, permLast>>

helperVars == <<helper>>

dispVars == <<disp>>

fsVars == <<fs>>

miscVars == <<loc, seqx, pol, modes, reg>>

nonPoolVars == <<tcVars, termVars, httpVars, permVars, helperVars, dispVars, fsVars, miscVars>>
nonToolVars == <<poolVars, termVars, httpVars, permVars, helperVars, dispVars, fsVars, miscVars>>
nonTermVars == <<poolVars, tcVars, httpVars, permVars, helperVars, dispVars, fsVars, miscVars>>
nonHttpVars == <<poolVars, tcVars, termVars, permVars, helperVars, dispVars, fsVars, miscVars>>
nonPermVars == <<poolVars, tcVars, termVars, httpVars, helperVars, dispVars, fsVars, miscVars>>
nonHelperVars == <<poolVars, tcVars, termVars, httpVars, permVars, dispVars, fsVars, miscVars>>
\* what a dispatcher call leaves alone besides the tool-call manager
nonDispVars == <<poolVars, termVars, httpVars, permVars, helperVars, fsVars, miscVars>>
nonFsVars == <<poolVars, tcVars, termVars, httpVars, permVars, helperVars,
               dispVars, miscVars>>
nonMiscVars == <<poolVars, tcVars, termVars, httpVars, permVars, helperVars,
                 dispVars, fsVars>>

vars == <<poolVars, tcVars, termVars, httpVars, permVars, helperVars,
          dispVars, fsVars, miscVars>>

(***************************************************************************)
(* Sequence helpers                                                        *)
(***************************************************************************)
Range(s) == {s[i] : i \in DOMAIN s}

RECURSIVE SeqFilterOut(_, _)
SeqFilterOut(s, ids) ==
  IF s = <<>> THEN <<>>
  ELSE IF Head(s).id \in ids THEN SeqFilterOut(Tail(s), ids)
       ELSE <<Head(s)>> \o SeqFilterOut(Tail(s), ids)

(***************************************************************************)
(* ConnectionPool                                                          *)
(***************************************************************************)
ConnIds(conns) == {conns[i].id : i \in DOMAIN conns}

\* getIdleConnection: first entry of the map, in insertion order, not in use
GetIdleConnection(conns) ==
  IF \E i \in DOMAIN conns : ~conns[i].inUse
  THEN conns[CHOOSE i \in DOMAIN conns :
               /\ ~conns[i].inUse
               /\ \A j \in DOMAIN conns : j < i => conns[j].inUse].id
  ELSE 0

SetInUse(conns, id, flag) ==
  [i \in DOMAIN conns |->
     IF conns[i].id = id THEN [conns[i] EXCEPT !.inUse = flag] ELSE conns[i]]

InUseOf(conns, id) ==
  \E i \in DOMAIN conns : conns[i].id = id /\ conns[i].inUse

\* markInUse: works on the PooledConnection object, also when the object
\* has meanwhile been deleted from the map
MarkInUseConns(conns, id) == SetInUse(conns, id, TRUE)

MarkInUseMetrics(m) ==
  [m EXCEPT !.activeConnections = @ + 1, !.idleConnections = @ - 1]

PoolInit ==
  /\ maxConnections \in 1..MaxConnections
  /\ connections = <<>>
  /\ waitingQueue = <<>>
  /\ metrics = [totalCreated |-> 0, totalDestroyed |-> 0,
                activeConnections |-> 0, idleConnections |-> 0,
                totalRequests |-> 0, waitingRequests |-> 0,
                peakConnections |-> 0]
  /\ nextConnectionId = 0
  /\ cleanupInterval = TRUE
  /\ acq = [a \in Acquirers |->
              [pc |-> "idle", conn |-> 0, timer |-> FALSE,
               parked |-> FALSE, err |-> "none"]]
  /\ sd = [pc |-> "idle", ids |-> <<>>]


\* acquire(), up to its first await
AcquireStart(a) ==
  /\ acq[a].pc = "idle"
  /\ LET idle == GetIdleConnection(connections)
         m1 == [metrics EXCEPT !.totalRequests = @ + 1,
                               !.waitingRequests = @ + 1]
     IN
     IF idle # 0 THEN
       /\ connections' = MarkInUseConns(connections, idle)
       /\ metrics' = [MarkInUseMetrics(m1) EXCEPT !.waitingRequests = @ - 1]
       /\ acq' = [acq EXCEPT ![a].pc = "holding", ![a].conn = idle]
       /\ UNCHANGED <<waitingQueue, nextConnectionId>>
     ELSE IF Len(connections) < maxConnections THEN
       \* createConnection up to `await factory()`
       /\ nextConnectionId' = nextConnectionId + 1
       /\ metrics' = m1
       /\ acq' = [acq EXCEPT ![a].pc = "creating",
                             ![a].conn = nextConnectionId + 1]
       /\ UNCHANGED <<connections, waitingQueue>>
     ELSE
       \* waitForConnection: arm the timer, push the waiter
       /\ waitingQueue' = Append(waitingQueue, a)
       /\ metrics' = m1
       /\ acq' = [acq EXCEPT ![a].pc = "parked", ![a].timer = TRUE,
                             ![a].parked = TRUE]
       /\ UNCHANGED <<connections, nextConnectionId>>
  /\ UNCHANGED <<cleanupInterval, sd>>
  /\ UNCHANGED <<maxConnections, nonPoolVars>>

\* createConnection after `await factory()` resolved
FactoryResolve(a) ==
  /\ acq[a].pc = "creating"
  /\ connections' = Append(connections, [id |-> acq[a].conn, inUse |-> FALSE])
  /\ metrics' = [metrics EXCEPT
                   !.totalCreated = @ + 1,
                   !.idleConnections = @ + 1,
                   !.peakConnections =
                      IF Len(connections) + 1 > @ THEN Len(connections) + 1
                      ELSE @]
  /\ acq' = [acq EXCEPT ![a].pc = "created"]
  /\ UNCHANGED <<waitingQueue, nextConnectionId, cleanupInterval, sd>>
  /\ UNCHANGED <<maxConnections, nonPoolVars>>

\* `await factory()` rejected: acquire's catch block
FactoryReject(a) ==
  /\ acq[a].pc = "creating"
  /\ metrics' = [metrics EXCEPT !.waitingRequests = @ - 1]
  /\ acq' = [acq EXCEPT ![a].pc = "failed", ![a].err = "factory"]
  /\ UNCHANGED <<connections, waitingQueue, nextConnectionId,
                 cleanupInterval, sd>>
  /\ UNCHANGED <<maxConnections, nonPoolVars>>

\* acquire() resumes after `await this.createConnection(factory)`
AcquireAfterCreate(a) ==
  /\ acq[a].pc = "created"
  /\ connections' = MarkInUseConns(connections, acq[a].conn)
  /\ metrics' = [MarkInUseMetrics(metrics) EXCEPT !.waitingRequests = @ - 1]
  /\ acq' = [acq EXCEPT ![a].pc = "holding"]
  /\ UNCHANGED <<waitingQueue, nextConnectionId, cleanupInterval, sd>>
  /\ UNCHANGED <<maxConnections, nonPoolVars>>

\* acquire() resumes after `await this.waitForConnection(...)` resolved
AcquireAfterWait(a) ==
  /\ acq[a].pc = "resolved"
  /\ connections' = MarkInUseConns(connections, acq[a].conn)
  /\ metrics' = [MarkInUseMetrics(metrics) EXCEPT !.waitingRequests = @ - 1]
  /\ acq' = [acq EXCEPT ![a].pc = "holding"]
  /\ UNCHANGED <<waitingQueue, nextConnectionId, cleanupInterval, sd>>
  /\ UNCHANGED <<maxConnections, nonPoolVars>>

\* findIndex((w) => w.resolve === resolve): the queue stores a wrapper
\* closure around `resolve`, never `resolve` itself, so no entry matches
WaiterIndex(queue, a) == 0

RemoveAt(s, i) ==
  IF i = 0 THEN s
  ELSE [j \in 1..(Len(s) - 1) |-> IF j < i THEN s[j] ELSE s[j + 1]]

\* the setTimeout callback of waitForConnection, then acquire's catch block
WaitTimeout(a) ==
  /\ acq[a].pc = "parked"
  /\ acq[a].timer
  /\ waitingQueue' = RemoveAt(waitingQueue, WaiterIndex(waitingQueue, a))
  /\ metrics' = [metrics EXCEPT !.waitingRequests = @ - 1]
  /\ acq' = [acq EXCEPT ![a].pc = "failed", ![a].err = "timeout",
                        ![a].timer = FALSE]
  /\ UNCHANGED <<connections, nextConnectionId, cleanupInterval, sd>>
  /\ UNCHANGED <<maxConnections, nonPoolVars>>

\* a resolve wrapper that clears the timer and forgets to resolve
ResolveWaiter_ClearOnly(A, w, id) == [A EXCEPT ![w].timer = FALSE]

\* waiting.resolve(conn) of a queue entry: clearTimeout, then resolve; a
\* no-op on the promise when the waiter was already rejected
ResolveWaiter(A, w, id) ==
  IF A[w].pc = "parked"
  THEN [A EXCEPT ![w].pc = "resolved", ![w].conn = id, ![w].timer = FALSE]
  ELSE [A EXCEPT ![w].timer = FALSE]

\* serveWaitingRequest, as a function of the pool after the release
ServeQueue(queue, conns) ==
  IF queue = <<>> \/ GetIdleConnection(conns) = 0 THEN queue ELSE Tail(queue)

ServeAcq(A, queue, conns) ==
  IF queue = <<>> \/ GetIdleConnection(conns) = 0 THEN A
  ELSE ResolveWaiter(A, Head(queue), GetIdleConnection(conns))

\* the release closure returned by acquire(): release(connectionId)
Release(a) ==
  /\ acq[a].pc = "holding"
  /\ IF acq[a].conn \notin ConnIds(connections) THEN
       \* 'Attempted to release unknown connection'
       /\ acq' = [acq EXCEPT ![a].pc = "released"]
       /\ UNCHANGED <<connections, waitingQueue, metrics>>
     ELSE
       LET conns1 == SetInUse(connections, acq[a].conn, FALSE) IN
       /\ connections' = conns1
       /\ metrics' = [metrics EXCEPT !.activeConnections = @ - 1,
                                     !.idleConnections = @ + 1]
       /\ waitingQueue' = ServeQueue(waitingQueue, conns1)
       /\ acq' = ServeAcq([acq EXCEPT ![a].pc = "released"],
                          waitingQueue, conns1)
  /\ UNCHANGED <<nextConnectionId, cleanupInterval, sd>>
  /\ UNCHANGED <<maxConnections, nonPoolVars>>

\* the release closure of an acquire is called once more after it returned
ReleaseAgain(a) ==
  /\ acq[a].pc = "released"
  /\ IF acq[a].conn \notin ConnIds(connections) THEN
       \* 'Attempted to release unknown connection'
       /\ acq' = [acq EXCEPT ![a].pc = "releasedTwice"]
       /\ UNCHANGED <<connections, waitingQueue, metrics>>
     ELSE
       LET conns1 == SetInUse(connections, acq[a].conn, FALSE) IN
       /\ connections' = conns1
       /\ metrics' = [metrics EXCEPT !.activeConnections = @ - 1,
                                     !.idleConnections = @ + 1]
       /\ waitingQueue' = ServeQueue(waitingQueue, conns1)
       /\ acq' = ServeAcq([acq EXCEPT ![a].pc = "releasedTwice"],
                          waitingQueue, conns1)
  /\ UNCHANGED <<nextConnectionId, cleanupInterval, sd>>
  /\ UNCHANGED <<maxConnections, nonPoolVars>>

\* destroyConnection(id) on a pool (conns, m)
DestroyConns(conns, id) == SeqFilterOut(conns, {id})

\* a destroy that does not count itself
DestroyMetrics_NoCount(conns, m, id) ==
  IF id \notin ConnIds(conns) THEN m
  ELSE IF InUseOf(conns, id)
       THEN [m EXCEPT !.activeConnections = @ - 1]
       ELSE [m EXCEPT !.idleConnections = @ - 1]

DestroyMetrics(conns, m, id) ==
  IF id \notin ConnIds(conns) THEN m
  ELSE IF InUseOf(conns, id)
       THEN [m EXCEPT !.totalDestroyed = @ + 1, !.activeConnections = @ - 1]
       ELSE [m EXCEPT !.totalDestroyed = @ + 1, !.idleConnections = @ - 1]

\* cleanupIdleConnections: the idle entries older than maxIdleTime (time is
\* abstract: any non-empty set of idle entries may have aged) are destroyed
CleanupIdleConnections ==
  /\ cleanupInterval
  /\ \E S \in SUBSET {connections[i].id : i \in
                        {j \in DOMAIN connections : ~connections[j].inUse}} :
       /\ S # {}
       /\ connections' = SeqFilterOut(connections, S)
       /\ metrics' = [metrics EXCEPT
                        !.totalDestroyed = @ + Cardinality(S),
                        !.idleConnections = @ - Cardinality(S)]
  /\ UNCHANGED <<waitingQueue, nextConnectionId, cleanupInterval, acq, sd>>
  /\ UNCHANGED <<maxConnections, nonPoolVars>>

\* shutdown() up to `await this.drain()`
ShutdownStart ==
  /\ sd.pc = "idle"
  /\ cleanupInterval' = FALSE
  /\ sd' = [sd EXCEPT !.pc = "draining"]
  /\ UNCHANGED <<connections, waitingQueue, metrics, nextConnectionId, acq>>
  /\ UNCHANGED <<maxConnections, nonPoolVars>>

\* a shutdown that forgets its waiters
RejectWaiters_None(A, queue) == A

\* reject every queued waiter, clear the queue (the waiter's catch block
\* runs with it)
RejectWaiters(A, queue) ==
  [a \in Acquirers |->
     IF a \in Range(queue) /\ A[a].pc = "parked"
     THEN [A[a] EXCEPT !.pc = "failed", !.err = "shutdown"]
     ELSE A[a]]

NumParked(A, queue) ==
  Cardinality({a \in Range(queue) : A[a].pc = "parked"})

\* shutdown() after drain(): snapshot the ids, destroy the first one; with
\* nothing to destroy the waiters are rejected in the same stretch
AfterDrain ==
  LET ids == [i \in DOMAIN connections |-> connections[i].id] IN
  IF ids = <<>> THEN
    /\ acq' = RejectWaiters(acq, waitingQueue)
    /\ metrics' = [metrics EXCEPT
                     !.waitingRequests = @ - NumParked(acq, waitingQueue)]
    /\ waitingQueue' = <<>>
    /\ sd' = [pc |-> "done", ids |-> <<>>]
    /\ UNCHANGED connections
  ELSE
    /\ connections' = DestroyConns(connections, Head(ids))
    /\ metrics' = DestroyMetrics(connections, metrics, Head(ids))
    /\ sd' = [pc |-> "destroying", ids |-> Tail(ids)]
    /\ UNCHANGED <<waitingQueue, acq>>

\* drain() returns because no connection is active
DrainComplete ==
  /\ sd.pc = "draining"
  /\ ~(metrics.activeConnections > 0)
  /\ AfterDrain
  /\ UNCHANGED <<nextConnectionId, cleanupInterval>>
  /\ UNCHANGED <<maxConnections, nonPoolVars>>

\* drain() gives up after drainTimeout with connections still active
DrainTimeout ==
  /\ sd.pc = "draining"
  /\ metrics.activeConnections > 0
  /\ AfterDrain
  /\ UNCHANGED <<nextConnectionId, cleanupInterval>>
  /\ UNCHANGED <<maxConnections, nonPoolVars>>

\* shutdown(): next `await this.destroyConnection(id)` of the loop
DestroyNext ==
  /\ sd.pc = "destroying"
  /\ sd.ids # <<>>
  /\ connections' = DestroyConns(connections, Head(sd.ids))
  /\ metrics' = DestroyMetrics(connections, metrics, Head(sd.ids))
  /\ sd' = [sd EXCEPT !.ids = Tail(sd.ids)]
  /\ UNCHANGED <<waitingQueue, nextConnectionId, cleanupInterval, acq>>
  /\ UNCHANGED <<maxConnections, nonPoolVars>>

\* shutdown() after the loop: reject the waiters, clear the queue
ShutdownFinish ==
  /\ sd.pc = "destroying"
  /\ sd.ids = <<>>
  /\ acq' = RejectWaiters(acq, waitingQueue)
  /\ metrics' = [metrics EXCEPT
                   !.waitingRequests = @ - NumParked(acq, waitingQueue)]
  /\ waitingQueue' = <<>>
  /\ sd' = [sd EXCEPT !.pc = "done"]
  /\ UNCHANGED <<connections, nextConnectionId, cleanupInterval>>
  /\ UNCHANGED <<maxConnections, nonPoolVars>>

(***************************************************************************)
(* ToolCallManager                                                         *)
(***************************************************************************)
Terminal == {"completed", "failed"}
NonTerminal == {"pending", "in_progress"}

\* position of a status along pending -> in_progress -> completed|failed
Rank(st) ==
  CASE st = "pending" -> 0
    [] st = "in_progress" -> 1
    [] OTHER -> 2

MapRemove(f, k) == [x \in DOMAIN f \ {k} |-> f[x]]

ToolInit ==
  /\ activeToolCalls = <<>>
  /\ toolCallCounter = 0
  /\ notifs = [i \in Execs |-> <<>>]
  /\ evictTimers = {}
  /\ exec = [t \in Execs |->
               [pc |-> "idle", session |-> NoSession, id |-> 0,
                outcome |-> "none", result |-> "none"]]
  /\ cancel = [pc |-> "idle", session |-> NoSession, todo |-> <<>>,
               cur |-> 0, K |-> {}, sent |-> <<>>]
  /\ sess = [s \in Sessions |-> [cancel |-> "no", mark |-> 0]]


\* reportToolCall: the entry stored in the map
ReportedInfo(sid, st, ti) ==
  [sessionId |-> sid, status |-> st, ended |-> FALSE, title |-> ti]

\* reportToolCall: the tool_call notification
ReportNotif(sid, st, ti) ==
  [kind |-> "tool_call", sessionId |-> sid, status |-> st, title |-> ti]

\* an updateToolCall that creates the entry it does not find
UpdateToolCall_Upsert(calls, sid, id, st, ti) ==
  IF id \in DOMAIN calls
  THEN [calls EXCEPT ![id] =
          [@ EXCEPT !.status = IF st = "none" THEN @ ELSE st,
                    !.ended = IF st \in Terminal THEN TRUE ELSE @,
                    !.title = IF ti = "none" THEN @ ELSE ti]]
  ELSE [x \in DOMAIN calls \cup {id} |->
          IF x = id
          THEN [sessionId |-> sid, status |-> st,
                ended |-> st \in Terminal, title |-> ti]
          ELSE calls[x]]

\* updateToolCall(sessionId, id, {status?, title?}): the stored info; an
\* unknown id is logged and ignored ("none" stands for an absent field)
UpdateToolCall(calls, sid, id, st, ti) ==
  IF id \notin DOMAIN calls THEN calls
  ELSE [calls EXCEPT ![id] =
          [@ EXCEPT !.status = IF st = "none" THEN @ ELSE st,
                    !.ended = IF st \in Terminal THEN TRUE ELSE @,
                    !.title = IF ti = "none" THEN @ ELSE ti]]

\* updateToolCall: the tool_call_update notification, carrying the session
\* id the caller passed and only the fields being updated
UpdateNotifs(calls, N, sid, id, st, ti) ==
  IF id \notin DOMAIN calls THEN N
  ELSE [N EXCEPT ![id] =
          Append(@, [kind |-> "tool_call_update", sessionId |-> sid,
                     status |-> st, title |-> ti])]

\* getSessionToolCalls: the entries of the session, in map order (ids are
\* inserted in increasing order and never re-inserted)
RECURSIVE SortedSeq(_)
SortedSeq(S) ==
  IF S = {} THEN <<>>
  ELSE LET m == CHOOSE x \in S : \A y \in S : x <= y
       IN <<m>> \o SortedSeq(S \ {m})

\* a listing that forgets the session filter
GetSessionToolCalls_AllSessions(calls, sid) == SortedSeq(DOMAIN calls)

GetSessionToolCalls(calls, sid) ==
  SortedSeq({id \in DOMAIN calls : calls[id].sessionId = sid})

\* the 30 s setTimeout of completeToolCall / failToolCall fires
EvictTimer(id) ==
  /\ id \in evictTimers
  /\ activeToolCalls' = MapRemove(activeToolCalls, id)
  /\ evictTimers' = evictTimers \ {id}
  /\ UNCHANGED <<toolCallCounter, notifs, exec, cancel, sess>>
  /\ UNCHANGED nonToolVars

(***************************************************************************)
(* ToolRegistry.executeToolWithSession                                     *)
(***************************************************************************)
\* a dispatcher that reports every execution as completed
FinalStatus_AlwaysCompleted(outcome) == "completed"

\* completeToolCall for a successful result, failToolCall otherwise
FinalStatus(outcome) ==
  IF outcome = "success" THEN "completed" ELSE "failed"

\* title sent with the final update: completeToolCall gets none from the
\* dispatcher, failToolCall defaults to 'Tool execution failed'
FinalTitle(outcome) ==
  IF outcome = "success" THEN "none" ELSE "Tool execution failed"

\* a dispatcher that reports with or without a session id
ShouldReport_Always(s) == TRUE

\* shouldReportToolCalls = sessionId && this.toolCallManager (the manager
\* is wired)
ShouldReport(s) == s # NoSession

\* executeToolWithSession up to its first await.  lookup: the tool is
\* missing, its parameters are invalid, or it can run
ExecStart(t, s, lookup) ==
  /\ exec[t].pc = "idle"
  /\ IF lookup # "ok" THEN
       \* 'Tool not found' / 'Invalid parameters': returned at once
       /\ exec' = [exec EXCEPT ![t].pc = "returned", ![t].session = s,
                               ![t].result = "failure"]
       /\ UNCHANGED <<activeToolCalls, toolCallCounter, notifs>>
     ELSE IF ~ShouldReport(s) THEN
       \* no reporting: straight to `await tool.handler(...)`
       /\ exec' = [exec EXCEPT ![t].pc = "running", ![t].session = s]
       /\ UNCHANGED <<activeToolCalls, toolCallCounter, notifs>>
     ELSE
       \* Step 1: reportToolCall with status pending
       LET id == toolCallCounter + 1 IN
       /\ toolCallCounter' = id
       /\ activeToolCalls' =
            [x \in DOMAIN activeToolCalls \cup {id} |->
               IF x = id THEN ReportedInfo(s, "pending", "tool")
               ELSE activeToolCalls[x]]
       /\ notifs' = [notifs EXCEPT ![id] =
                       Append(@, ReportNotif(s, "pending", "tool"))]
       /\ exec' = [exec EXCEPT ![t].pc = "reported", ![t].session = s,
                               ![t].id = id]
  /\ UNCHANGED <<evictTimers, cancel, sess>>
  /\ UNCHANGED nonToolVars

\* Step 2, after `await reportToolCall`: update to in_progress
ExecAfterReport(t) ==
  /\ exec[t].pc = "reported"
  /\ activeToolCalls' =
       UpdateToolCall(activeToolCalls, exec[t].session, exec[t].id,
                      "in_progress", "none")
  /\ notifs' = UpdateNotifs(activeToolCalls, notifs, exec[t].session,
                            exec[t].id, "in_progress", "none")
  /\ exec' = [exec EXCEPT ![t].pc = "updated"]
  /\ UNCHANGED <<toolCallCounter, evictTimers, cancel, sess>>
  /\ UNCHANGED nonToolVars

\* Step 3, after `await updateToolCall`: the handler is invoked
ExecAfterUpdate(t) ==
  /\ exec[t].pc = "updated"
  /\ exec' = [exec EXCEPT ![t].pc = "running"]
  /\ UNCHANGED <<activeToolCalls, toolCallCounter, notifs, evictTimers,
                 cancel, sess>>
  /\ UNCHANGED nonToolVars

\* `await tool.handler(...)` settles: success, {success:false}, or a throw
\* (catch block); with a tool call id the final update is sent
HandlerSettles(t, o) ==
  /\ exec[t].pc = "running"
  /\ IF ~ShouldReport(exec[t].session) \/ exec[t].id = 0 THEN
       /\ exec' = [exec EXCEPT ![t].pc = "returned", ![t].outcome = o,
                               ![t].result =
                                 IF o = "success" THEN "success"
                                 ELSE "failure"]
       /\ UNCHANGED <<activeToolCalls, notifs>>
     ELSE
       /\ activeToolCalls' =
            UpdateToolCall(activeToolCalls, exec[t].session, exec[t].id,
                           FinalStatus(o), FinalTitle(o))
       /\ notifs' = UpdateNotifs(activeToolCalls, notifs, exec[t].session,
                                 exec[t].id, FinalStatus(o), FinalTitle(o))
       /\ exec' = [exec EXCEPT ![t].pc = "finalising", ![t].outcome = o]
  /\ UNCHANGED <<toolCallCounter, evictTimers, cancel, sess>>
  /\ UNCHANGED nonToolVars

\* completeToolCall / failToolCall after `await this.updateToolCall`: the
\* clean-up timer is armed, the dispatcher returns its result
ExecAfterFinal(t) ==
  /\ exec[t].pc = "finalising"
  /\ evictTimers' = evictTimers \cup {exec[t].id}
  /\ exec' = [exec EXCEPT ![t].pc = "returned",
                          ![t].result =
                            IF exec[t].outcome = "success" THEN "success"
                            ELSE "failure"]
  /\ UNCHANGED <<activeToolCalls, toolCallCounter, notifs, cancel, sess>>
  /\ UNCHANGED nonToolVars

(***************************************************************************)
(* ToolCallManager.cancelSessionToolCalls                                  *)
(***************************************************************************)
\* this.activeToolCalls.delete(toolCall.toolCallId)
CancelDelete(calls, id) == MapRemove(calls, id)

\* the loop of cancelSessionToolCalls from the entry at the head of `todo`
\* up to its next await: entries that are no longer pending/in_progress are
\* only deleted; the first one that is gets the failed update, and the
\* loop waits on it
RECURSIVE CancelRun(_, _, _, _)
CancelRun(calls, N, c, sid) ==
  IF c.todo = <<>> THEN
    [calls |-> calls, notifs |-> N,
     cancel |-> [c EXCEPT !.pc = "done", !.cur = 0]]
  ELSE
    LET id == Head(c.todo) IN
    IF id \in DOMAIN calls /\ calls[id].status \in NonTerminal THEN
      [calls |-> UpdateToolCall(calls, sid, id, "failed",
                               "Cancelled by user"),
       notifs |-> UpdateNotifs(calls, N, sid, id, "failed",
                               "Cancelled by user"),
       cancel |-> [c EXCEPT !.pc = "looping", !.cur = id,
                            !.todo = Tail(c.todo),
                            !.sent = Append(c.sent, id)]]
    ELSE
      CancelRun(CancelDelete(calls, id), N,
                [c EXCEPT !.todo = Tail(c.todo)], sid)

\* cancelSessionToolCalls(sessionId) up to its first await
CancelStart(s) ==
  /\ cancel.pc \in {"idle", "done"}
  /\ LET snap == GetSessionToolCalls(activeToolCalls, s)
         c0 == [pc |-> "looping", session |-> s, todo |-> snap, cur |-> 0,
                K |-> {id \in DOMAIN activeToolCalls :
                         /\ activeToolCalls[id].sessionId = s
                         /\ activeToolCalls[id].status \in NonTerminal},
                sent |-> <<>>]
         r == CancelRun(activeToolCalls, notifs, c0, s)
     IN
     /\ activeToolCalls' = r.calls
     /\ notifs' = r.notifs
     /\ cancel' = r.cancel
     /\ sess' = [sess EXCEPT ![s] =
                   [cancel |-> IF r.cancel.pc = "done" THEN "done"
                               ELSE "issued",
                    mark |-> toolCallCounter]]
  /\ UNCHANGED <<toolCallCounter, evictTimers, exec>>
  /\ UNCHANGED nonToolVars

\* cancelSessionToolCalls resumes after `await this.updateToolCall(...)`:
\* delete the entry just updated, go on with the loop
CancelResume ==
  /\ cancel.pc = "looping"
  /\ LET r == CancelRun(CancelDelete(activeToolCalls, cancel.cur), notifs,
                        cancel, cancel.session)
     IN
     /\ activeToolCalls' = r.calls
     /\ notifs' = r.notifs
     /\ cancel' = r.cancel
     /\ sess' = IF r.cancel.pc = "done"
                THEN [sess EXCEPT ![cancel.session].cancel = "done"]
                ELSE sess
  /\ UNCHANGED <<toolCallCounter, evictTimers, exec>>
  /\ UNCHANGED nonToolVars

(***************************************************************************)
(* Terminal manager and ManagedTerminalHandle                              *)
(***************************************************************************)
maxConcurrentTerminals == MaxConcurrentTerminals

TermInit ==
  /\ activeTerminals = {}
  /\ termCounter = 0
  /\ term = [t \in Terms |->
               [pc |-> "idle", id |-> 0, via |-> "none", released |-> FALSE,
                mgrRelease |-> FALSE, drops |-> 0, err |-> "none"]]


getActiveTerminalCount == Cardinality(activeTerminals)

\* a release that lowers the count whether or not the id is tracked
DropTracking_Some(active, id) ==
  IF id \in active \/ active = {} THEN active \ {id}
  ELSE active \ {CHOOSE x \in active : TRUE}

\* the manager forgets terminal `id`; an id it does not track is ignored
DropTracking(active, id) == active \ {id}

\* by how much dropping `id` lowers the active count
Lowered(active, id) ==
  Cardinality(active) - Cardinality(DropTracking(active, id))

\* createTerminal(sessionId, req) up to the client call: capability and
\* command validation, output-byte policy, then the per-process cap.
\* via: called by a test/tool directly or by executeWithProgress
CreateTerminalStart(t, valid, via) ==
  /\ term[t].pc = "idle"
  /\ term' = [term EXCEPT ![t] =
       IF ~valid THEN [@ EXCEPT !.pc = "rejected", !.err = "policy"]
       ELSE IF getActiveTerminalCount >= maxConcurrentTerminals
       THEN [@ EXCEPT !.pc = "rejected",
                      !.err = "Maximum concurrent terminals reached"]
       ELSE [@ EXCEPT !.pc = "creating", !.via = via]]
  /\ UNCHANGED <<activeTerminals, termCounter>>
  /\ UNCHANGED nonTermVars

\* the client's terminal/create settles: on success the terminal is tracked
\* and the managed handle is returned
ClientCreateReturns(t, ok) ==
  /\ term[t].pc = "creating"
  /\ IF ok THEN
       LET id == termCounter + 1 IN
       /\ termCounter' = id
       /\ activeTerminals' = activeTerminals \cup {id}
       /\ term' = [term EXCEPT ![t].pc = "open", ![t].id = id]
     ELSE
       /\ term' = [term EXCEPT ![t].pc = "rejected", ![t].err = "client"]
       /\ UNCHANGED <<activeTerminals, termCounter>>
  /\ UNCHANGED nonTermVars

\* terminalManager.releaseTerminal(id), called by the holder of the handle
ReleaseTerminal(t) ==
  /\ term[t].pc \in {"open", "releasing", "closed"}
  /\ term[t].via = "direct"
  /\ activeTerminals' = DropTracking(activeTerminals, term[t].id)
  /\ term' = [term EXCEPT
                ![t].mgrRelease = TRUE,
                ![t].drops = @ + Lowered(activeTerminals, term[t].id)]
  /\ UNCHANGED termCounter
  /\ UNCHANGED nonTermVars

\* handle.release() up to the client's terminal/release; a handle that was
\* released before does nothing more
HandleReleaseStart(t) ==
  /\ term[t].pc \in {"open", "releasing", "closed"}
  /\ term[t].via = "direct"
  /\ IF term[t].released THEN UNCHANGED term
     ELSE term' = [term EXCEPT ![t].released = TRUE, ![t].pc = "releasing"]
  /\ UNCHANGED <<activeTerminals, termCounter>>
  /\ UNCHANGED nonTermVars

\* the client's terminal/release settled: the handle drops the tracking
HandleReleaseDone(t) ==
  /\ term[t].pc = "releasing"
  /\ activeTerminals' = DropTracking(activeTerminals, term[t].id)
  /\ term' = [term EXCEPT
                ![t].pc = "closed",
                ![t].drops = @ + Lowered(activeTerminals, term[t].id)]
  /\ UNCHANGED termCounter
  /\ UNCHANGED nonTermVars

\* executeWithProgress, finally block: cleanup() = releaseTerminal(id),
\* then `await terminal.release()` with its errors ignored
ExecuteWithProgressFinally(t) ==
  /\ term[t].pc = "open"
  /\ term[t].via = "progress"
  /\ activeTerminals' = DropTracking(activeTerminals, term[t].id)
  /\ term' = [term EXCEPT
                ![t].mgrRelease = TRUE,
                ![t].drops = @ + Lowered(activeTerminals, term[t].id),
                ![t].released = TRUE,
                ![t].pc = "releasing"]
  /\ UNCHANGED termCounter
  /\ UNCHANGED nonTermVars

(***************************************************************************)
(* HTTP stream adapter (httpToStream)                                      *)
(***************************************************************************)
NullBuffer == "null"

\* messages written by the connection; "cyclic" cannot be serialised
Msgs == {"m1", "m2", "cyclic"}

Bodies == {"empty", "json", "garbage"}

\* JSON.stringify(message)
Stringify(m) == IF m = "cyclic" THEN <<"throws">> ELSE <<"json", m>>

\* the JSON-RPC -32603 envelope of the 500 responses
ErrorEnvelope(text) == <<"json", "error", -32603, text>>

HttpInit ==
  /\ responseBuffer = NullBuffer
  /\ responseWritten = FALSE
  /\ wstate = "writable"
  /\ responses = <<>>
  /\ wlog = <<>>
  /\ rstate = "reading"
  /\ rqueue = <<>>


\* readable.start: the whole body is read, parsed and enqueued
ReadBody(b) ==
  /\ rstate = "reading"
  /\ IF b = "empty" THEN rstate' = "closed" /\ UNCHANGED rqueue
     ELSE IF b = "json" THEN rstate' = "closed" /\ rqueue' = <<"request">>
     ELSE rstate' = "errored" /\ UNCHANGED rqueue
  /\ UNCHANGED <<responseBuffer, responseWritten, wstate, responses, wlog>>
  /\ UNCHANGED nonHttpVars

\* a sink that answers 200 on every close
SinkCloseResponse_Always200(buf, written) ==
  <<[status |-> 200, body |-> <<"json", buf>>]>>

\* sink.close(): the response written for the buffered message, 204 when
\* there is none, nothing when a response was written before

SinkCloseResponse(buf, written) ==
  IF written THEN <<>>
  ELSE IF buf # NullBuffer
  THEN IF Stringify(buf) = <<"throws">>
       THEN <<[status |-> 500, body |-> ErrorEnvelope("Internal error")]>>
       ELSE <<[status |-> 200, body |-> Stringify(buf)]>>
  ELSE <<[status |-> 204, body |-> <<>>]>>

\* sink.abort(): 500 unless a response was written
SinkAbortResponse(written) ==
  IF written THEN <<>>
  ELSE <<[status |-> 500, body |-> ErrorEnvelope("Connection aborted")]>>

\* writer.write(m): on a writable stream the sink's write runs; a throwing
\* sink errors the stream.  On a closed or errored stream the promise is
\* rejected and the sink is not called
WriterWrite(m) ==
  /\ Len(wlog) < MaxOps
  /\ IF wstate # "writable" THEN
       /\ wlog' = Append(wlog, [op |-> "write", ok |-> FALSE,
                                why |-> wstate])
       /\ UNCHANGED <<responseBuffer, wstate>>
     ELSE IF responseBuffer # NullBuffer THEN
       /\ wlog' = Append(wlog, [op |-> "write", ok |-> FALSE,
                                why |-> "multiple writes"])
       /\ wstate' = "errored"
       /\ UNCHANGED responseBuffer
     ELSE
       /\ responseBuffer' = m
       /\ wlog' = Append(wlog, [op |-> "write", ok |-> TRUE, why |-> "none"])
       /\ UNCHANGED wstate
  /\ UNCHANGED <<responseWritten, responses, rstate, rqueue>>
  /\ UNCHANGED nonHttpVars

\* writer.close(): sink.close runs only on a writable stream
WriterClose ==
  /\ Len(wlog) < MaxOps
  /\ IF wstate # "writable" THEN
       /\ wlog' = Append(wlog, [op |-> "close", ok |-> FALSE,
                                why |-> wstate])
       /\ UNCHANGED <<responseWritten, wstate, responses>>
     ELSE
       /\ responses' =
            responses \o SinkCloseResponse(responseBuffer, responseWritten)
       /\ responseWritten' = TRUE
       /\ wstate' = "closed"
       /\ wlog' = Append(wlog, [op |-> "close", ok |-> TRUE, why |-> "none"])
  /\ UNCHANGED <<responseBuffer, rstate, rqueue>>
  /\ UNCHANGED nonHttpVars

\* an abort that reaches the sink in every stream state and writes its
\* response whatever was written before
WriterAbort_Unguarded ==
  /\ Len(wlog) < MaxOps
  /\ responses' = responses \o SinkAbortResponse(FALSE)
  /\ responseWritten' = TRUE
  /\ wstate' = "errored"
  /\ wlog' = Append(wlog, [op |-> "abort", ok |-> TRUE, why |-> "none"])
  /\ UNCHANGED <<responseBuffer, rstate, rqueue>>
  /\ UNCHANGED nonHttpVars

\* writer.abort(): sink.abort runs only on a writable stream; on a closed
\* or errored stream abort resolves without reaching the sink
WriterAbort ==
  /\ Len(wlog) < MaxOps
  /\ IF wstate # "writable" THEN
       /\ wlog' = Append(wlog, [op |-> "abort", ok |-> TRUE, why |-> wstate])
       /\ UNCHANGED <<responseWritten, wstate, responses>>
     ELSE
       /\ responses' = responses \o SinkAbortResponse(responseWritten)
       /\ responseWritten' = TRUE
       /\ wstate' = "errored"
       /\ wlog' = Append(wlog, [op |-> "abort", ok |-> TRUE, why |-> "none"])
  /\ UNCHANGED <<responseBuffer, rstate, rqueue>>
  /\ UNCHANGED nonHttpVars

(***************************************************************************)
(* Permissions broker (interactive flow)                                   *)
(***************************************************************************)
PermInit ==
  /\ permReq = [r \in PermReqs |->
                  [pc |-> "idle", session |-> NoSession, outcome |-> "none",
                   optionId |-> "none", by |-> "none"]]
  /\ permLast = [op |-> "none", session |-> NoSession]


OptionIds == {"allow", "reject"}

\* every pending request, whatever its session
SessionPending_All(reqs, s) ==
  {r \in PermReqs : reqs[r].pc = "pending"}

\* the pending requests of session s
SessionPending(reqs, s) ==
  {r \in PermReqs : reqs[r].pc = "pending" /\ reqs[r].session = s}

\* getMetrics().pendingRequests
pendingRequests == Cardinality({r \in PermReqs : permReq[r].pc = "pending"})

\* createPermissionRequest: an invalid request fails with -32602, a valid
\* one becomes a pending promise
CreatePermissionRequest(r, s, valid) ==
  /\ permReq[r].pc = "idle"
  /\ permReq' = [permReq EXCEPT ![r] =
       IF valid THEN [@ EXCEPT !.pc = "pending", !.session = s]
       ELSE [@ EXCEPT !.pc = "invalid", !.session = s]]
  /\ permLast' = [op |-> "create", session |-> s]
  /\ UNCHANGED nonPermVars

\* the client's reply over the reverse channel
ClientReply(r, o) ==
  /\ permReq[r].pc = "pending"
  /\ permReq' = [permReq EXCEPT ![r].pc = "resolved",
                                ![r].outcome = "selected",
                                ![r].optionId = o,
                                ![r].by = "reply"]
  /\ permLast' = [op |-> "reply", session |-> permReq[r].session]
  /\ UNCHANGED nonPermVars

\* a timer that answers like a cancel
TimeoutOutcome_Cancelled == [outcome |-> "cancelled", optionId |-> "none"]

\* what the timer resolves the promise with
TimeoutOutcome == [outcome |-> "selected", optionId |-> "reject-once"]

\* the 5 minute timer of a pending request fires
PermissionTimeout(r) ==
  /\ permReq[r].pc = "pending"
  /\ permReq' = [permReq EXCEPT ![r].pc = "resolved",
                                ![r].outcome = TimeoutOutcome.outcome,
                                ![r].optionId = TimeoutOutcome.optionId,
                                ![r].by = "timeout"]
  /\ permLast' = [op |-> "timeout", session |-> permReq[r].session]
  /\ UNCHANGED nonPermVars

\* cancelSessionPermissionRequests(s)
CancelSessionPermissionRequests(s) ==
  /\ permReq' = [r \in PermReqs |->
       IF r \in SessionPending(permReq, s)
       THEN [permReq[r] EXCEPT !.pc = "resolved", !.outcome = "cancelled",
                               !.by = "cancel"]
       ELSE permReq[r]]
  /\ permLast' = [op |-> "cancel", session |-> s]
  /\ UNCHANGED nonPermVars

(***************************************************************************)
(* Terminal helpers: executeSimpleCommand, executeWithTimeout,             *)
(* executeWithProgress (one helper call, split at its awaits)               *)
(***************************************************************************)
HelperKinds == {"simple", "timeout", "progress"}

\* exitStatus.exitCode: 0, another number, or absent (killed by a signal)
Exits == {"zero", "nonzero", "null"}

TermId == "term-1"

HelperInit ==
  helper = [kind |-> "none", pc |-> "idle", custom |-> FALSE, poll |-> FALSE,
            calls |-> <<>>, notifs |-> <<>>, exit |-> "none",
            timerFired |-> FALSE, timedOut |-> FALSE, pollTimer |-> FALSE,
            pending |-> "none", result |-> "none", resTimedOut |-> FALSE]

\* the handle/manager calls made so far, in order
Call(h, c) == [h EXCEPT !.calls = Append(@, c)]

\* a finally block that releases nothing
FinallyCalls_None(kind) == <<>>

\* the calls of the finally block: cleanup() of executeWithProgress is
\* terminalManager.releaseTerminal, then every helper calls handle.release()
FinallyCalls(kind) ==
  IF kind = "progress" THEN <<"releaseTerminal", "release">>
  ELSE <<"release">>

\* control reaches the finally block with the outcome `p` of the try block
\* (a value to return or an error to throw) and awaits handle.release()
Finally(h, p) ==
  [h EXCEPT !.calls = @ \o FinallyCalls(h.kind), !.pending = p,
            !.pc = "releasing"]

\* a timeout branch that forgets the kill
OnTimeout_NoKill(h) ==
  [h EXCEPT !.timerFired = TRUE, !.timedOut = TRUE, !.pc = "killing"]

\* executeWithTimeout, `result === 'timeout'`: timedOut = true, then
\* `await terminal.kill()`
OnTimeout(h) ==
  [Call(h, "kill") EXCEPT !.timerFired = TRUE, !.timedOut = TRUE,
                          !.pc = "killing"]

\* kind the tool call is reported with
ProgressKind == "edit"

\* kind and title of the tool_call of executeWithProgress
ProgressReport(h) ==
  [sub |-> "tool_call", kind |-> ProgressKind, status |-> "in_progress",
   title |-> IF h.custom THEN "options.title" ELSE "$ command args",
   content |-> <<>>]

\* updateToolCall({content: terminalContent})
ProgressEmbed ==
  [sub |-> "tool_call_update", kind |-> "none", status |-> "none",
   title |-> "none", content |-> <<"terminal", TermId>>]

\* completeToolCall for exit code 0, failToolCall otherwise
ProgressFinal(exit) ==
  IF exit = "zero"
  THEN [sub |-> "tool_call_update", kind |-> "none", status |-> "completed",
        title |-> "Command completed successfully",
        content |-> <<"terminal", TermId>>]
  ELSE [sub |-> "tool_call_update", kind |-> "none", status |-> "failed",
        title |-> "Command failed (exit code)",
        content |-> <<"text", "Error">>]

\* a helper is called; it awaits terminalManager.createTerminal
HelperStart(k, custom, poll) ==
  /\ helper.pc = "idle"
  /\ helper' = [helper EXCEPT !.kind = k, !.custom = custom, !.poll = poll,
                              !.pc = "creating"]
  /\ UNCHANGED nonHelperVars

\* createTerminal settles.  On an error the helper throws (no terminal);
\* otherwise the try block starts and runs to its first await
HelperCreated(ok) ==
  /\ helper.pc = "creating"
  /\ helper' =
       IF ~ok THEN [helper EXCEPT !.pc = "done", !.result = "thrown"]
       ELSE IF helper.kind = "simple"
       THEN [Call(helper, "waitForExit") EXCEPT !.pc = "waitExit"]
       ELSE IF helper.kind = "timeout"
       THEN [Call(helper, "waitForExit") EXCEPT !.pc = "racing"]
       ELSE [helper EXCEPT !.notifs = Append(@, ProgressReport(helper)),
                           !.pc = "reported"]
  /\ UNCHANGED nonHelperVars

\* executeWithProgress after `await reportToolCall`: embed the terminal
ProgressAfterReport ==
  /\ helper.pc = "reported"
  /\ helper' = [helper EXCEPT !.notifs = Append(@, ProgressEmbed),
                              !.pc = "embedded"]
  /\ UNCHANGED nonHelperVars

\* executeWithProgress after `await updateToolCall`: the poll interval is
\* installed when pollIntervalMs > 0, then `await terminal.waitForExit()`
ProgressAfterEmbed ==
  /\ helper.pc = "embedded"
  /\ helper' = [Call(helper, "waitForExit") EXCEPT
                  !.pollTimer = helper.poll, !.pc = "waitExit"]
  /\ UNCHANGED nonHelperVars

WaitOutcomes == Exits \cup {"throws"}

\* the first waitForExit settles before any timer
WaitSettles(o) ==
  /\ helper.pc \in {"waitExit", "racing"}
  /\ helper' =
       IF o = "throws"
       THEN IF helper.kind = "progress"
            \* catch block: best-effort currentOutput, then ToolError
            THEN [Call(helper, "currentOutput") EXCEPT !.pc = "errOutput"]
            ELSE Finally(helper, "thrown")
       ELSE [Call(helper, "currentOutput") EXCEPT
               !.exit = o, !.pollTimer = FALSE, !.pc = "output"]
  /\ UNCHANGED nonHelperVars

\* executeWithTimeout: the timer wins the race
TimerFires ==
  /\ helper.pc = "racing"
  /\ helper' = OnTimeout(helper)
  /\ UNCHANGED nonHelperVars

\* `await terminal.kill()` settles; after it the exit status is awaited for
\* at most 100 ms
KillSettles(ok) ==
  /\ helper.pc = "killing"
  /\ helper' = IF ok
               THEN [Call(helper, "waitForExit") EXCEPT !.pc = "grace"]
               ELSE Finally(helper, "thrown")
  /\ UNCHANGED nonHelperVars

GraceOutcomes == Exits \cup {"throws", "grace over"}

\* the race of the second waitForExit against the 100 ms timer settles;
\* errors are ignored
GraceSettles(o) ==
  /\ helper.pc = "grace"
  /\ helper' = [Call(helper, "currentOutput") EXCEPT
                  !.exit = IF o \in Exits THEN o ELSE "none",
                  !.pc = "output"]
  /\ UNCHANGED nonHelperVars

\* `await terminal.currentOutput()` of the try block settles
OutputSettles(ok) ==
  /\ helper.pc = "output"
  /\ helper' =
       IF helper.kind = "progress"
       THEN IF ok
            THEN [helper EXCEPT !.notifs = Append(@, ProgressFinal(helper.exit)),
                                !.pc = "final"]
            ELSE [Call(helper, "currentOutput") EXCEPT !.pc = "errOutput"]
       ELSE Finally(helper, IF ok THEN "returned" ELSE "thrown")
  /\ UNCHANGED nonHelperVars

\* executeWithProgress after `await completeToolCall / failToolCall`
ProgressAfterFinal ==
  /\ helper.pc = "final"
  /\ helper' = Finally(helper, "returned")
  /\ UNCHANGED nonHelperVars

\* the currentOutput of the catch block settles, either way the ToolError
\* is thrown
ErrOutputSettles(ok) ==
  /\ helper.pc = "errOutput"
  /\ helper' = Finally(helper, "thrown")
  /\ UNCHANGED nonHelperVars

\* `await terminal.release()` of the finally block settles; only
\* executeWithProgress ignores its error
ReleaseSettles(ok) ==
  /\ helper.pc = "releasing"
  /\ helper' = [helper EXCEPT
       !.pc = "done",
       !.result = IF ok \/ helper.kind = "progress" THEN helper.pending
                  ELSE "thrown",
       !.resTimedOut = helper.timedOut]
  /\ UNCHANGED nonHelperVars

(***************************************************************************)
(* ToolRegistry.executeToolWithSession with its inputs: parameter          *)
(* validation, optional reporting, and a sendNotification that may throw   *)
(***************************************************************************)
Keys == {"path", "content"}

\* tool.parameters.required, in array order
Requireds == {<<>>, <<"path">>, <<"path", "content">>, <<"content", "path">>}

\* a parameter: key absent, or present holding null, undefined or a value
ParamVals == {"absent", "null", "undefined", "value"}

\* toolCall.parameters: null/undefined, an array, or an object
NoParams == [k \in Keys |-> "absent"]

ParamShapes ==
  {[shape |-> sh, vals |-> NoParams] : sh \in {"null", "array"}}
    \cup {[shape |-> "object", vals |-> v] : v \in [Keys -> ParamVals]}

\* validateToolParameters: the loop over `required`; <<>> stands for null
RECURSIVE ValidateRequired(_, _)
ValidateRequired(required, params) ==
  IF required = <<>> THEN <<>>
  ELSE LET p == Head(required) IN
       IF params[p] = "absent"
       THEN <<"Missing required parameter: ", p>>
       ELSE IF params[p] \in {"null", "undefined"}
       THEN <<"Parameter ", p, " cannot be null or undefined">>
       ELSE ValidateRequired(Tail(required), params)

\* a validation that accepts everything
ValidateToolParameters_AcceptAll(required, params) == <<>>

\* validateToolParameters(tool, parameters): error text or <<>> (null)
ValidateToolParameters(required, params) ==
  IF params.shape = "null"
  THEN <<"Parameters are required and must be an object">>
  ELSE IF params.shape = "array" THEN <<"Parameters must be an object">>
  ELSE ValidateRequired(required, params.vals)

\* the error of the result returned for a validation error
InvalidParametersError(verr) == <<"Invalid parameters for ", "tool", ": ">> \o verr

DispSession == "s1"

DispInit ==
  disp = [pc |-> "idle", found |-> FALSE, required |-> <<>>,
          params |-> [shape |-> "null", vals |-> NoParams],
          report |-> FALSE, session |-> FALSE, id |-> 0, newId |-> 0,
          handlerCalled |-> FALSE, outcome |-> "none",
          result |-> "none", success |-> FALSE, error |-> <<>>]

\* the manager-side state a dispatcher call works on
Bundle == [calls |-> activeToolCalls, counter |-> toolCallCounter,
           notifs |-> notifs]

\* reportToolCall(sessionId, name, {status: st}); ok: sendNotification
\* returns (otherwise it throws, after the entry was stored)
DReport(b, st, ok) ==
  LET id == b.counter + 1 IN
  [counter |-> id,
   calls |-> [x \in DOMAIN b.calls \cup {id} |->
                IF x = id THEN ReportedInfo(DispSession, st, "tool")
                ELSE b.calls[x]],
   notifs |-> IF ok
              THEN [b.notifs EXCEPT ![id] =
                      Append(@, ReportNotif(DispSession, st, "tool"))]
              ELSE b.notifs]

\* updateToolCall(sessionId, id, {status, title}); ok as above
DUpdate(b, id, st, ti, ok) ==
  [counter |-> b.counter,
   calls |-> UpdateToolCall(b.calls, DispSession, id, st, ti),
   notifs |-> IF ok
              THEN UpdateNotifs(b.calls, b.notifs, DispSession, id, st, ti)
              ELSE b.notifs]

\* updateToolCall throws: the entry exists and sendNotification throws
UpdateThrows(b, id, ok) == ~ok /\ id \in DOMAIN b.calls

\* an error thrown inside the catch block leaves the dispatcher
CatchThrown(d, err) ==
  [d EXCEPT !.pc = "done", !.result = "thrown", !.error = <<"send failed">>]

\* the catch block up to its first await (or its return), entered with the
\* error message err; ok: the sendNotification of its report/update returns
Catch(b, d, err, ok) ==
  IF d.report /\ d.id # 0 THEN
    \* failToolCall(sessionId, toolCallId, {error})
    [b |-> DUpdate(b, d.id, "failed", "Tool execution failed", ok),
     d |-> IF UpdateThrows(b, d.id, ok) THEN CatchThrown(d, err)
           ELSE [d EXCEPT !.pc = "catchFinal", !.error = err]]
  ELSE IF d.report THEN
    \* no toolCallId yet: reportToolCall with status failed
    [b |-> DReport(b, "failed", ok),
     d |-> IF ~ok THEN CatchThrown(d, err)
           ELSE [d EXCEPT !.pc = "catchReported", !.error = err,
                          !.newId = b.counter + 1]]
  ELSE
    [b |-> b,
     d |-> [d EXCEPT !.pc = "done", !.result = "returned",
                     !.success = FALSE, !.error = err]]

\* the manager-side variables take the values of bundle b
SetBundle(b) ==
  /\ activeToolCalls' = b.calls
  /\ toolCallCounter' = b.counter
  /\ notifs' = b.notifs

Returned(d, ok, err) ==
  [d EXCEPT !.pc = "done", !.result = "returned", !.success = ok,
            !.error = err]

\* executeToolWithSession up to its first await or its early return.
\* ok / cok: the sendNotification calls of the try / catch block return
DispStart(found, req, params, hasSession, hasManager, ok, cok) ==
  /\ disp.pc = "idle"
  /\ LET d0 == [disp EXCEPT !.found = found, !.required = req,
                            !.params = params, !.session = hasSession,
                            !.report = hasSession /\ hasManager]
         verr == ValidateToolParameters(req, params)
     IN
     IF ~found THEN
       /\ disp' = Returned(d0, FALSE, <<"Tool not found: ", "tool">>)
       /\ UNCHANGED <<activeToolCalls, toolCallCounter, notifs>>
     ELSE IF verr # <<>> THEN
       /\ disp' = Returned(d0, FALSE, InvalidParametersError(verr))
       /\ UNCHANGED <<activeToolCalls, toolCallCounter, notifs>>
     ELSE IF d0.report THEN
       LET b1 == DReport(Bundle, "pending", ok) IN
       IF ok THEN
         /\ SetBundle(b1)
         /\ disp' = [d0 EXCEPT !.pc = "reported", !.newId = b1.counter]
       ELSE
         LET r == Catch(b1, d0, <<"send failed">>, cok) IN
         SetBundle(r.b) /\ disp' = r.d
     ELSE
       /\ disp' = [d0 EXCEPT !.pc = "running", !.handlerCalled = TRUE]
       /\ UNCHANGED <<activeToolCalls, toolCallCounter, notifs>>
  /\ UNCHANGED <<evictTimers, exec, cancel, sess>>
  /\ UNCHANGED nonDispVars

\* after `await reportToolCall`: toolCallId is set, update to in_progress
DispAfterReport(ok, cok) ==
  /\ disp.pc = "reported"
  /\ LET d1 == [disp EXCEPT !.id = disp.newId]
         b1 == DUpdate(Bundle, d1.id, "in_progress", "none", ok)
     IN
     IF UpdateThrows(Bundle, d1.id, ok) THEN
       LET r == Catch(b1, d1, <<"send failed">>, cok) IN
       SetBundle(r.b) /\ disp' = r.d
     ELSE
       SetBundle(b1) /\ disp' = [d1 EXCEPT !.pc = "updated"]
  /\ UNCHANGED <<evictTimers, exec, cancel, sess>>
  /\ UNCHANGED nonDispVars

\* after `await updateToolCall`: the handler is invoked
DispAfterUpdate ==
  /\ disp.pc = "updated"
  /\ disp' = [disp EXCEPT !.pc = "running", !.handlerCalled = TRUE]
  /\ UNCHANGED tcVars
  /\ UNCHANGED nonDispVars

\* `await tool.handler(...)` settles
DispHandlerSettles(o, ok, cok) ==
  /\ disp.pc = "running"
  /\ LET d1 == [disp EXCEPT !.outcome = o] IN
     IF o = "throw" THEN
       LET r == Catch(Bundle, d1, <<"handler threw">>, cok) IN
       SetBundle(r.b) /\ disp' = r.d
     ELSE IF d1.report /\ d1.id # 0 THEN
       LET b1 == DUpdate(Bundle, d1.id, FinalStatus(o), FinalTitle(o), ok) IN
       IF UpdateThrows(Bundle, d1.id, ok) THEN
         LET r == Catch(b1, d1, <<"send failed">>, cok) IN
         SetBundle(r.b) /\ disp' = r.d
       ELSE
         SetBundle(b1) /\ disp' = [d1 EXCEPT !.pc = "finalising"]
     ELSE
       /\ disp' = Returned(d1, o = "success",
                           IF o = "success" THEN <<>> ELSE <<"handler error">>)
       /\ UNCHANGED <<activeToolCalls, toolCallCounter, notifs>>
  /\ UNCHANGED <<evictTimers, exec, cancel, sess>>
  /\ UNCHANGED nonDispVars

\* completeToolCall / failToolCall after their update: timer, then return
DispAfterFinal ==
  /\ disp.pc = "finalising"
  /\ evictTimers' = evictTimers \cup {disp.id}
  /\ disp' = Returned(disp, disp.outcome = "success",
                      IF disp.outcome = "success" THEN <<>>
                      ELSE <<"handler error">>)
  /\ UNCHANGED <<activeToolCalls, toolCallCounter, notifs, exec, cancel, sess>>
  /\ UNCHANGED nonDispVars

\* catch block after `await reportToolCall(... status failed)`: failToolCall
DispCatchAfterReport(ok) ==
  /\ disp.pc = "catchReported"
  /\ LET d1 == [disp EXCEPT !.id = disp.newId]
         b1 == DUpdate(Bundle, d1.id, "failed", "Tool execution failed", ok)
     IN
     /\ SetBundle(b1)
     /\ disp' = IF UpdateThrows(Bundle, d1.id, ok)
                THEN CatchThrown(d1, d1.error)
                ELSE [d1 EXCEPT !.pc = "catchFinal"]
  /\ UNCHANGED <<evictTimers, exec, cancel, sess>>
  /\ UNCHANGED nonDispVars

\* catch block after failToolCall: the failure result is returned
DispCatchAfterFinal ==
  /\ disp.pc = "catchFinal"
  /\ evictTimers' = evictTimers \cup {disp.id}
  /\ disp' = Returned(disp, FALSE, disp.error)
  /\ UNCHANGED <<activeToolCalls, toolCallCounter, notifs, exec, cancel, sess>>
  /\ UNCHANGED nonDispVars

(***************************************************************************)
(* FilesystemToolProvider.readFile / writeFile: the retry loop around      *)
(* _readFileOnce / _writeFileOnce                                          *)
(***************************************************************************)
FsOps == {"read", "write"}

\* fsConfig.retries: not configured, or a number
RetriesConfigs ==
  {[set |-> FALSE, n |-> 0]} \cup {[set |-> TRUE, n |-> k] : k \in 0..MaxRetries}

DefaultRetries == 3

\* maxRetries = this.fsConfig.retries ?? 3
maxRetriesOf(cfg) == IF cfg.set THEN cfg.n ELSE DefaultRetries

\* how a client call (fs/read_text_file, fs/write_text_file) settles
ClientOutcomes == {"ok", "transient", "notfound", "permission"}

\* classes of an error by isValidationError / isFileNotFoundError /
\* isPermissionError; "transient" is none of them
ErrorClasses == {"validation", "notfound", "permission", "transient"}

\* an error that leaves _readFileOnce/_writeFileOnce: only one thrown by its
\* own catch block (the injected logger); "none": the catch block returns
Escapes == {"none"} \cup ErrorClasses

FsInit ==
  fs = [pc |-> "idle", op |-> "read", valid |-> TRUE, maxRetries |-> 0,
        attempt |-> 0, calls |-> 0, delays |-> <<>>, lastClient |-> "none",
        escaped |-> FALSE, result |-> "none"]

\* the loop's catch block: validation and permission errors, and for
\* readFile not-found errors, are rethrown at once
Retryable(op, class) ==
  /\ class # "validation"
  /\ ~(op = "read" /\ class = "notfound")
  /\ class # "permission"

\* the catch block of _readFileOnce/_writeFileOnce for ANY error of its try
\* block: it logs and returns {success:false}; esc: its logger throws.
\* An escaped error reaches the loop's catch block
OnceCatch(f, esc) ==
  IF esc = "none" THEN [f EXCEPT !.pc = "done", !.result = "failure"]
  ELSE IF ~Retryable(f.op, esc) \/ f.attempt = f.maxRetries
  THEN [f EXCEPT !.pc = "done", !.result = "thrown", !.escaped = TRUE]
  ELSE [f EXCEPT !.pc = "delaying", !.attempt = @ + 1, !.escaped = TRUE]

\* _readFileOnce/_writeFileOnce up to the client call: the parameter checks
\* throw AcpFileSystemError inside the try block
OnceBegin(f, esc) ==
  IF ~f.valid THEN OnceCatch(f, esc)
  ELSE [f EXCEPT !.pc = "calling", !.calls = @ + 1]

\* readFile(params) / writeFile(params): attempt 0 runs without delay
FsStart(op, cfg, valid, esc) ==
  /\ fs.pc = "idle"
  /\ fs' = OnceBegin([fs EXCEPT !.op = op, !.valid = valid,
                                !.maxRetries = maxRetriesOf(cfg)], esc)
  /\ UNCHANGED nonFsVars

\* the client call settles
FsClientSettles(o, esc) ==
  /\ fs.pc = "calling"
  /\ LET f == [fs EXCEPT !.lastClient = o] IN
     fs' = IF o = "ok" THEN [f EXCEPT !.pc = "done", !.result = "success"]
           ELSE OnceCatch(f, esc)
  /\ UNCHANGED nonFsVars

\* `await this.delay(retryDelay * attempt)` elapses, then the next attempt
FsDelayElapses(esc) ==
  /\ fs.pc = "delaying"
  /\ fs' = OnceBegin([fs EXCEPT !.delays = Append(@, fs.attempt)], esc)
  /\ UNCHANGED nonFsVars

(***************************************************************************)
(* ToolRegistry.extractLocations and the locations of the tool_call        *)
(* notification                                                            *)
(***************************************************************************)
\* a parameter holding a path: absent, the empty string, or a path
PathVals == {"absent", "", "/a", "/b"}

FileSeqs ==
  UNION {[1..n -> {"/p", "/q"}] : n \in 0..MaxFiles}

\* parameters['files']: absent, a value that is no array, or an array
FilesVals ==
  {[kind |-> k, items |-> <<>>] : k \in {"absent", "string"}}
    \cup {[kind |-> "array", items |-> s] : s \in FileSeqs}

LocParams ==
  [path : PathVals, source : PathVals, sourcePath : PathVals,
   destinationPath : PathVals, destination : PathVals, files : FilesVals]

\* JavaScript truthiness of a parameter
Truthy(v) == v \notin {"absent", ""}

\* an extraction that only knows `path`
ExtractLocations_PathOnly(p) ==
  IF Truthy(p.path) THEN <<p.path>> ELSE <<>>

\* extractLocations(parameters)
ExtractLocations(p) ==
  LET l1 == IF Truthy(p.path) THEN <<p.path>>
            ELSE IF Truthy(p.sourcePath) THEN <<p.sourcePath>>
            ELSE <<>>
      l2 == IF Truthy(p.destinationPath) \/ Truthy(p.destination)
            THEN l1 \o <<IF Truthy(p.destinationPath)
                         THEN p.destinationPath ELSE p.destination>>
            ELSE l1
  IN IF p.files.kind = "array" THEN l2 \o p.files.items ELSE l2

NoLocParams ==
  [path |-> "absent", source |-> "absent", sourcePath |-> "absent",
   destinationPath |-> "absent", destination |-> "absent",
   files |-> [kind |-> "absent", items |-> <<>>]]

LocInit ==
  loc = [pc |-> "idle", params |-> NoLocParams, present |-> FALSE,
         locations |-> <<>>]

\* the dispatcher builds reportOptions (locations only when there are
\* any) and reportToolCall copies them into the tool_call notification
ReportLocations(p) ==
  /\ loc.pc = "idle"
  /\ LET locations == ExtractLocations(p) IN
     loc' = [pc |-> "reported", params |-> p,
             present |-> Len(locations) > 0, locations |-> locations]
  /\ UNCHANGED <<seqx, pol, modes, reg>>
  /\ UNCHANGED nonMiscVars

(***************************************************************************)
(* executeSequential: the loop over executeSimpleCommand                   *)
(***************************************************************************)
\* options.stopOnError: not given, true or false
StopOptions == {"unset", "true", "false"}

\* stopOnError = options?.stopOnError ?? true
stopOnErrorOf(opt) == opt # "false"

\* how `await executeSimpleCommand(...)` settles: a result with exit code
\* 0, another number or null, or an exception (no terminal, client error)
CommandOutcomes == {"zero", "nonzero", "null", "throw"}

SeqInit ==
  seqx = [pc |-> "idle", n |-> 0, stopOnError |-> TRUE, started |-> <<>>,
          results |-> <<>>, result |-> "none"]

\* a loop that never stops early
Breaks_Never(stopOnError, exitCode) == FALSE

\* `if (stopOnError && result.exitCode !== 0) break`
Breaks(stopOnError, exitCode) == stopOnError /\ exitCode # "zero"

\* the for loop reaches its next command, or returns the results
NextCommand(s) ==
  IF Len(s.started) < s.n
  THEN [s EXCEPT !.pc = "running", !.started = Append(@, Len(@) + 1)]
  ELSE [s EXCEPT !.pc = "done", !.result = "returned"]

\* executeSequential(..., commands, options) up to its first await
SequentialStart(n, opt) ==
  /\ seqx.pc = "idle"
  /\ seqx' = NextCommand([seqx EXCEPT !.n = n,
                                      !.stopOnError = stopOnErrorOf(opt)])
  /\ UNCHANGED <<loc, pol, modes, reg>>
  /\ UNCHANGED nonMiscVars

\* `await executeSimpleCommand(...)` of the running command settles
CommandSettles(o) ==
  /\ seqx.pc = "running"
  /\ seqx' =
       IF o = "throw" THEN [seqx EXCEPT !.pc = "done", !.result = "thrown"]
       ELSE LET s == [seqx EXCEPT !.results = Append(@, o)] IN
            IF Breaks(s.stopOnError, o)
            THEN [s EXCEPT !.pc = "done", !.result = "returned"]
            ELSE NextCommand(s)
  /\ UNCHANGED <<loc, pol, modes, reg>>
  /\ UNCHANGED nonMiscVars

(***************************************************************************)
(* PermissionsHandler.handlePermissionRequest: the default policy (no      *)
(* client prompt wired)                                                    *)
(***************************************************************************)
ToolKinds == {"read", "edit", "delete", "move", "search", "execute",
              "think", "fetch", "switch_mode", "other"}

SafeKinds == {"read", "search", "think", "fetch"}

MutatingKinds == {"edit", "delete", "move", "execute"}

AllowKinds == {"allow_once", "allow_always"}

RejectKinds == {"reject_once", "reject_always"}

\* the kind of a permission option; "bogus" is no option kind
OptionKinds == AllowKinds \cup RejectKinds \cup {"bogus"}

\* the options of a request, each identified by its position
OptionLists == UNION {[1..n -> OptionKinds] : n \in 0..MaxOptions}

\* position of the first option with a kind of S, 0 when there is none
FirstOf(options, S) ==
  IF \E i \in DOMAIN options : options[i] \in S
  THEN CHOOSE i \in DOMAIN options :
         /\ options[i] \in S
         /\ \A j \in DOMAIN options : options[j] \in S => i <= j
  ELSE 0

\* requests missing sessionId or toolCall, with no options, or with an
\* option of unknown kind are invalid
ValidRequest(wellFormed, options) ==
  /\ wellFormed
  /\ options # <<>>
  /\ \A i \in DOMAIN options : options[i] # "bogus"

\* a policy that always takes the first option
DefaultOption_First(kind, options) == 1

\* the option the default policy selects
DefaultOption(kind, options) ==
  IF kind \in SafeKinds /\ FirstOf(options, AllowKinds) # 0
  THEN FirstOf(options, AllowKinds)
  ELSE IF kind \in MutatingKinds /\ FirstOf(options, RejectKinds) # 0
  THEN FirstOf(options, RejectKinds)
  ELSE 1

PolicyInit ==
  pol = [pc |-> "idle", kind |-> "other", options |-> <<>>,
         valid |-> FALSE, outcome |-> "none", optionId |-> 0, code |-> 0]

\* handlePermissionRequest(request) under the default policy
HandlePermissionRequest(wellFormed, kind, options) ==
  /\ pol.pc = "idle"
  /\ pol' =
       IF ~ValidRequest(wellFormed, options)
       THEN [pc |-> "done", kind |-> kind, options |-> options,
             valid |-> FALSE, outcome |-> "error", optionId |-> 0,
             code |-> -32602]
       ELSE [pc |-> "done", kind |-> kind, options |-> options,
             valid |-> TRUE, outcome |-> "selected",
             optionId |-> DefaultOption(kind, options), code |-> 0]
  /\ UNCHANGED <<loc, seqx, modes, reg>>
  /\ UNCHANGED nonMiscVars

(***************************************************************************)
(* SessionManager: the mode of each session                                *)
(***************************************************************************)
ModeSessions == 1..NumModeSessions

\* the advertised catalog
AvailableModeIds == {"ask", "plan", "agent"}

DefaultMode == "ask"

\* the mode ids a caller may pass to setSessionMode
RequestedModes == AvailableModeIds \cup {"invalid-mode", ""}

\* "none": no such session
ModesInit ==
  modes = [mode |-> [s \in ModeSessions |-> "none"],
           last |-> [op |-> "none", session |-> 0, requested |-> "none",
                     result |-> "none", previous |-> "none"]]

\* a manager that takes any mode id
ValidMode_Any(m) == TRUE

\* setSessionMode validates modeId against the catalog
ValidMode(m) == m \in AvailableModeIds

\* createSession({cwd, name?, mode?}): mode is an advertised id or absent
\* ("unset"), in which case the session starts in the default mode
CreateSession(s, m) ==
  /\ modes.mode[s] = "none"
  /\ modes' = [mode |-> [modes.mode EXCEPT ![s] =
                           IF m = "unset" THEN DefaultMode ELSE m],
               last |-> [op |-> "create", session |-> s, requested |-> m,
                         result |-> "ok", previous |-> "none"]]
  /\ UNCHANGED <<loc, seqx, pol, reg>>
  /\ UNCHANGED nonMiscVars

\* setSessionMode(id, modeId) -> previousModeId; unknown sessions and
\* unknown mode ids are rejected with a SessionError
SetSessionMode(s, m) ==
  /\ modes' =
       IF modes.mode[s] = "none"
       THEN [modes EXCEPT !.last =
               [op |-> "set", session |-> s, requested |-> m,
                result |-> "no session", previous |-> "none"]]
       ELSE IF ~ValidMode(m)
       THEN [modes EXCEPT !.last =
               [op |-> "set", session |-> s, requested |-> m,
                result |-> "invalid mode", previous |-> "none"]]
       ELSE [mode |-> [modes.mode EXCEPT ![s] = m],
             last |-> [op |-> "set", session |-> s, requested |-> m,
                       result |-> "ok", previous |-> modes.mode[s]]]
  /\ UNCHANGED <<loc, seqx, pol, reg>>
  /\ UNCHANGED nonMiscVars

(***************************************************************************)
(* ToolRegistry: providers and the name-to-tool index                      *)
(***************************************************************************)
ProviderNames == {"p1", "p2"}

ToolNames == {"t1", "t2"}

\* a provider object: its name and the names of the tools getTools() yields
ProviderObjs == [name : ProviderNames, tools : SUBSET ToolNames]

NoProvider == [name |-> "none", tools |-> {}]

\* this.providers and this.tools of an empty registry; a tool of the index
\* is identified by the provider object it came from
EmptyRegistry ==
  [providers |-> [n \in ProviderNames |-> NoProvider],
   tools |-> [t \in ToolNames |-> NoProvider]]

RegistryInit ==
  reg = [now |-> EmptyRegistry, before |-> EmptyRegistry,
         last |-> [op |-> "none", name |-> "none", fresh |-> FALSE]]

\* an unregistration that leaves the index alone
UnregisterTools_Keep(r, p) == r.tools

\* unregisterProvider: this.tools.delete(tool.name) for each tool of p
UnregisterTools(r, p) ==
  [t \in ToolNames |-> IF t \in p.tools THEN NoProvider ELSE r.tools[t]]

\* registerProvider(provider)
RegisterProvider(p) ==
  /\ reg' = [now |-> [providers |-> [reg.now.providers EXCEPT ![p.name] = p],
                      tools |-> [t \in ToolNames |->
                                   IF t \in p.tools THEN p
                                   ELSE reg.now.tools[t]]],
             before |-> reg.now,
             last |-> [op |-> "register", name |-> p.name,
                       fresh |-> reg.now.providers[p.name] = NoProvider]]
  /\ UNCHANGED <<loc, seqx, pol, modes>>
  /\ UNCHANGED nonMiscVars

\* unregisterProvider(providerName)
UnregisterProvider(n) ==
  /\ LET p == reg.now.providers[n] IN
     reg' = [now |-> IF p = NoProvider THEN reg.now
                     ELSE [providers |-> [reg.now.providers EXCEPT
                                            ![n] = NoProvider],
                           tools |-> UnregisterTools(reg.now, p)],
             before |-> reg.before,
             last |-> [op |-> IF reg.last.op = "register"
                                 /\ reg.last.name = n
                              THEN "register-unregister" ELSE "unregister",
                       name |-> n, fresh |-> reg.last.fresh]]
  /\ UNCHANGED <<loc, seqx, pol, modes>>
  /\ UNCHANGED nonMiscVars


(***************************************************************************)
(* ToolCallManager called through its public methods                       *)
(***************************************************************************)
ReportStatuses == {"pending", "in_progress", "failed"}
UpdateStatuses == {"in_progress", "completed"}
FinishOutcomes == {"success", "failure"}

\* reportToolCall(sessionId, toolName, {title, kind, status?}): counter++,
\* the entry is stored, the tool_call notification is sent
ApiReportToolCall(s, st) ==
  /\ toolCallCounter < NumExecs
  /\ LET id == toolCallCounter + 1 IN
     /\ toolCallCounter' = id
     /\ activeToolCalls' =
          [x \in DOMAIN activeToolCalls \cup {id} |->
             IF x = id THEN ReportedInfo(s, st, "tool")
             ELSE activeToolCalls[x]]
     /\ notifs' = [notifs EXCEPT ![id] = Append(@, ReportNotif(s, st, "tool"))]
  /\ UNCHANGED <<evictTimers, exec, cancel, sess>>
  /\ UNCHANGED nonToolVars

\* updateToolCall(sessionId, toolCallId, {status?}) called with any session
\* id and any tool call id
ApiUpdateToolCall(s, id, st) ==
  /\ Len(notifs[id]) < MaxNotifs
  /\ activeToolCalls' = UpdateToolCall(activeToolCalls, s, id, st, "none")
  /\ notifs' = UpdateNotifs(activeToolCalls, notifs, s, id, st, "none")
  /\ UNCHANGED <<toolCallCounter, evictTimers, exec, cancel, sess>>
  /\ UNCHANGED nonToolVars

\* completeToolCall / failToolCall(sessionId, toolCallId, ...) up to their
\* `await this.updateToolCall(...)`; frame t is the pending call
ApiFinishToolCall(t, s, id, o) ==
  /\ exec[t].pc = "idle"
  /\ Len(notifs[id]) < MaxNotifs
  /\ activeToolCalls' =
       UpdateToolCall(activeToolCalls, s, id, FinalStatus(o), FinalTitle(o))
  /\ notifs' = UpdateNotifs(activeToolCalls, notifs, s, id, FinalStatus(o),
                            FinalTitle(o))
  /\ exec' = [exec EXCEPT ![t].pc = "finalising", ![t].id = id, ![t].outcome = o]
  /\ UNCHANGED <<toolCallCounter, evictTimers, cancel, sess>>
  /\ UNCHANGED nonToolVars
(***************************************************************************)
(* Specifications                                                          *)
(***************************************************************************)
\* every component as constructed
Init ==
  /\ PoolInit /\ ToolInit /\ TermInit /\ HttpInit /\ PermInit
  /\ HelperInit /\ DispInit /\ FsInit
  /\ LocInit /\ SeqInit /\ PolicyInit
  /\ ModesInit /\ RegistryInit

PoolNext ==
  \/ \E a \in Acquirers : AcquireStart(a)
  \/ \E a \in Acquirers : FactoryResolve(a)
  \/ \E a \in Acquirers : FactoryReject(a)
  \/ \E a \in Acquirers : AcquireAfterCreate(a)
  \/ \E a \in Acquirers : AcquireAfterWait(a)
  \/ \E a \in Acquirers : WaitTimeout(a)
  \/ \E a \in Acquirers : Release(a)
  \/ CleanupIdleConnections
  \/ ShutdownStart
  \/ DrainComplete
  \/ DrainTimeout
  \/ DestroyNext
  \/ ShutdownFinish

PoolSpec == Init /\ [][PoolNext]_vars

\* the timer callbacks and the microtask continuations always get to run
FairPoolSpec ==
  /\ PoolSpec
  /\ \A a \in Acquirers :
       /\ WF_vars(WaitTimeout(a))
       /\ WF_vars(AcquireAfterWait(a))
       /\ WF_vars(AcquireAfterCreate(a))

\* the pool with callers that may call their release closure twice
PoolReleaseNext == PoolNext \/ \E a \in Acquirers : ReleaseAgain(a)

PoolReleaseSpec == Init /\ [][PoolReleaseNext]_vars


Lookups == {"ok", "notfound", "invalid"}
Outcomes == {"success", "failure", "throw"}

ToolNext ==
  \/ \E t \in Execs, s \in Sessions \cup {NoSession}, l \in Lookups :
       ExecStart(t, s, l)
  \/ \E t \in Execs : ExecAfterReport(t)
  \/ \E t \in Execs : ExecAfterUpdate(t)
  \/ \E t \in Execs, o \in Outcomes : HandlerSettles(t, o)
  \/ \E t \in Execs : ExecAfterFinal(t)
  \/ \E id \in Execs : EvictTimer(id)
  \/ \E s \in Sessions : CancelStart(s)
  \/ CancelResume

ToolSpec == Init /\ [][ToolNext]_vars

ManagerNext ==
  \/ \E s \in Sessions, st \in ReportStatuses : ApiReportToolCall(s, st)
  \/ \E s \in Sessions, id \in Execs, st \in UpdateStatuses :
       ApiUpdateToolCall(s, id, st)
  \/ \E t \in Execs, s \in Sessions, id \in Execs, o \in FinishOutcomes :
       ApiFinishToolCall(t, s, id, o)
  \/ \E t \in Execs : ExecAfterFinal(t)
  \/ \E id \in Execs : EvictTimer(id)

ManagerSpec == Init /\ [][ManagerNext]_vars

Vias == {"direct", "progress"}

TermNext ==
  \/ \E t \in Terms, valid \in BOOLEAN, via \in Vias :
       CreateTerminalStart(t, valid, via)
  \/ \E t \in Terms, ok \in BOOLEAN : ClientCreateReturns(t, ok)
  \/ \E t \in Terms : ReleaseTerminal(t)
  \/ \E t \in Terms : HandleReleaseStart(t)
  \/ \E t \in Terms : HandleReleaseDone(t)
  \/ \E t \in Terms : ExecuteWithProgressFinally(t)

TermSpec == Init /\ [][TermNext]_vars

HttpNext ==
  \/ \E b \in Bodies : ReadBody(b)
  \/ \E m \in Msgs : WriterWrite(m)
  \/ WriterClose
  \/ WriterAbort

HttpSpec == Init /\ [][HttpNext]_vars

PermNext ==
  \/ \E r \in PermReqs, s \in Sessions, valid \in BOOLEAN :
       CreatePermissionRequest(r, s, valid)
  \/ \E r \in PermReqs, o \in OptionIds : ClientReply(r, o)
  \/ \E r \in PermReqs : PermissionTimeout(r)
  \/ \E s \in Sessions : CancelSessionPermissionRequests(s)

PermSpec == Init /\ [][PermNext]_vars

\* the timeout timer of a pending request always gets to fire
FairPermSpec ==
  PermSpec /\ \A r \in PermReqs : WF_vars(PermissionTimeout(r))


HelperNext ==
  \/ \E k \in HelperKinds, custom \in BOOLEAN, poll \in BOOLEAN :
       HelperStart(k, custom, poll)
  \/ \E ok \in BOOLEAN : HelperCreated(ok)
  \/ ProgressAfterReport
  \/ ProgressAfterEmbed
  \/ \E o \in WaitOutcomes : WaitSettles(o)
  \/ TimerFires
  \/ \E ok \in BOOLEAN : KillSettles(ok)
  \/ \E o \in GraceOutcomes : GraceSettles(o)
  \/ \E ok \in BOOLEAN : OutputSettles(ok)
  \/ ProgressAfterFinal
  \/ \E ok \in BOOLEAN : ErrOutputSettles(ok)
  \/ \E ok \in BOOLEAN : ReleaseSettles(ok)

HelperSpec == Init /\ [][HelperNext]_vars

\* every awaited call of the helper settles and every continuation runs
FairHelperSpec == HelperSpec /\ WF_vars(HelperNext)


DispatchNext ==
  \/ \E found \in BOOLEAN, req \in Requireds, params \in ParamShapes,
        hasSession \in BOOLEAN, hasManager \in BOOLEAN,
        ok \in BOOLEAN, cok \in BOOLEAN :
       DispStart(found, req, params, hasSession, hasManager, ok, cok)
  \/ \E ok \in BOOLEAN, cok \in BOOLEAN : DispAfterReport(ok, cok)
  \/ DispAfterUpdate
  \/ \E o \in Outcomes, ok \in BOOLEAN, cok \in BOOLEAN :
       DispHandlerSettles(o, ok, cok)
  \/ DispAfterFinal
  \/ \E ok \in BOOLEAN : DispCatchAfterReport(ok)
  \/ DispCatchAfterFinal

DispatchSpec == Init /\ [][DispatchNext]_vars


FsNext ==
  \/ \E op \in FsOps, cfg \in RetriesConfigs, valid \in BOOLEAN,
        esc \in Escapes : FsStart(op, cfg, valid, esc)
  \/ \E o \in ClientOutcomes, esc \in Escapes : FsClientSettles(o, esc)
  \/ \E esc \in Escapes : FsDelayElapses(esc)

FsSpec == Init /\ [][FsNext]_vars


LocNext == \E p \in LocParams : ReportLocations(p)

LocSpec == Init /\ [][LocNext]_vars


SeqNext ==
  \/ \E n \in 0..MaxCommands, opt \in StopOptions : SequentialStart(n, opt)
  \/ \E o \in CommandOutcomes : CommandSettles(o)

SeqSpec == Init /\ [][SeqNext]_vars


PolicyNext ==
  \E wellFormed \in BOOLEAN, kind \in ToolKinds, options \in OptionLists :
    HandlePermissionRequest(wellFormed, kind, options)

PolicySpec == Init /\ [][PolicyNext]_vars


ModesNext ==
  \/ \E s \in ModeSessions, m \in AvailableModeIds \cup {"unset"} :
       CreateSession(s, m)
  \/ \E s \in ModeSessions, m \in RequestedModes : SetSessionMode(s, m)

ModesSpec == Init /\ [][ModesNext]_vars


RegistryNext ==
  \/ \E p \in ProviderObjs : RegisterProvider(p)
  \/ \E n \in ProviderNames : UnregisterProvider(n)

RegistrySpec == Init /\ [][RegistryNext]_vars

(***************************************************************************)
(* Claims on the connection pool                                           *)
(***************************************************************************)
PoolSize == Len(connections)

\* C1: in every reachable state of the pool the number of connections held
\* in the pool is at most maxConnections.
C1_PoolWithinMax == PoolSize <= maxConnections

Completed(a) == acq[a].pc \in {"holding", "released", "failed"}

\* C2 (as stated): an acquire that was parked and has completed received a
\* connection or the acquire-timeout error, nothing else.
C2_ConnectionOrTimeout ==
  \A a \in Acquirers :
    (acq[a].parked /\ acq[a].pc = "failed") => acq[a].err = "timeout"

\* C2 (amended): every parked acquire eventually completes, and it completes
\* with a connection, with the acquire-timeout error, or, when the pool is
\* shut down while it is parked, with the shutdown error.
C2_ParkedAcquireCompletes ==
  /\ \A a \in Acquirers : (acq[a].pc = "parked") ~> Completed(a)
  /\ [](\A a \in Acquirers :
          (acq[a].parked /\ acq[a].pc = "failed")
             => acq[a].err \in {"timeout", "shutdown"})

C2_Witness ==
  \E a \in Acquirers :
    acq[a].parked /\ acq[a].pc = "failed" /\ acq[a].err = "shutdown"

(***************************************************************************)
(* Claims on tool calls                                                    *)
(***************************************************************************)
\* C3: for every toolCallId the stored status only moves forward along
\* pending -> in_progress -> completed|failed, and never changes once it is
\* completed or failed.
C3_StatusMonotonic ==
  [][\A id \in DOMAIN activeToolCalls \cap DOMAIN activeToolCalls' :
       /\ Rank(activeToolCalls'[id].status) >= Rank(activeToolCalls[id].status)
       /\ activeToolCalls[id].status \in Terminal
            => activeToolCalls'[id].status = activeToolCalls[id].status]_vars

\* the (sub-kind, status) pairs of the notifications sent for a tool call
Observed(id) ==
  [i \in DOMAIN notifs[id] |-> <<notifs[id][i].kind, notifs[id][i].status>>]

Lifecycle(result) ==
  << <<"tool_call", "pending">>,
     <<"tool_call_update", "in_progress">>,
     <<"tool_call_update",
       IF result = "success" THEN "completed" ELSE "failed">> >>

CancelledByUser(id) ==
  \E i \in DOMAIN notifs[id] : notifs[id][i].title = "Cancelled by user"

C5_CancelFanOut ==
  cancel.pc = "done" =>
    /\ Len(cancel.sent) = Cardinality(cancel.K)
    /\ Range(cancel.sent) = cancel.K

\* a terminal update that the tool call reached by itself
OwnTerminal(id) ==
  \E i \in DOMAIN notifs[id] :
    /\ notifs[id][i].status \in Terminal
    /\ notifs[id][i].title # "Cancelled by user"

\* C5 (amended): a finished cancel of S has emitted one
\* failed/"Cancelled by user" update for each tool call of S that was still
\* pending or in_progress when the cancel loop reached it and none for any
\* other tool call: at most K, and fewer only for tool calls of S that
\* completed or failed by themselves while the cancel was running.
C5_CancelFanOutReached ==
  /\ cancel.pc = "done" =>
       /\ Range(cancel.sent) \subseteq cancel.K
       /\ Len(cancel.sent) = Cardinality(Range(cancel.sent))
       /\ \A id \in cancel.K \ Range(cancel.sent) : OwnTerminal(id)
  /\ \A id \in Execs : \A i \in DOMAIN notifs[id] :
       notifs[id][i].title = "Cancelled by user"
         => notifs[id][i].sessionId = notifs[id][1].sessionId

C5_Witness ==
  /\ cancel.pc = "done"
  /\ Len(cancel.sent) >= 1
  /\ \E id \in DOMAIN activeToolCalls :
       /\ activeToolCalls[id].sessionId # cancel.session
       /\ activeToolCalls[id].status \in NonTerminal

C7_TerminalCap == getActiveTerminalCount <= maxConcurrentTerminals

\* terminals whose tracking has been stored and not dropped
ExpectedActive ==
  {term[t].id : t \in {u \in Terms : term[u].id # 0 /\ term[u].drops = 0}}

\* C8: releasing a terminal drops the manager's tracking of it exactly once:
\* the active count is lowered at most once per terminal, the tracked set is
\* exactly the created terminals not yet dropped, and after handle.release()
\* the terminal is not tracked; a second handle.release() or a manager-side
\* releaseTerminal next to handle.release() lowers nothing further.
C8_ReleaseDropsOnce ==
  /\ \A t \in Terms : term[t].drops <= 1
  /\ activeTerminals = ExpectedActive
  /\ \A t \in Terms :
       term[t].pc = "closed"
         => term[t].id \notin activeTerminals /\ term[t].drops = 1

C8_Witness ==
  /\ \E t \in Terms :
       /\ term[t].via = "progress" /\ term[t].pc = "closed"
       /\ term[t].mgrRelease /\ term[t].released
  /\ \E t \in Terms :
       /\ term[t].via = "direct" /\ term[t].pc = "closed"
       /\ term[t].mgrRelease
  /\ activeTerminals # {}

(***************************************************************************)
(* Claims on the HTTP stream adapter                                       *)
(***************************************************************************)
\* a write was rejected because a message was buffered already, and the
\* writable side was closed afterwards
ClosedAfterRejectedWrite ==
  \E i, j \in DOMAIN wlog :
    /\ i < j
    /\ wlog[i].op = "write" /\ ~wlog[i].ok /\ wlog[i].why = "multiple writes"
    /\ wlog[j].op = "close"

\* C9: after a second write has been rejected with "HTTP stream does not
\* support multiple writes", the first frame is still delivered as the body
\* of the HTTP response once the writable side is closed.
C9_FirstFrameDelivered ==
  (ClosedAfterRejectedWrite /\ responseBuffer # "cyclic")
    => responses = <<[status |-> 200, body |-> Stringify(responseBuffer)]>>

(***************************************************************************)
(* Claims on the permissions broker                                        *)
(***************************************************************************)
\* C10: cancelling the permission requests of session S resolves exactly
\* the pending requests of S, each with outcome "cancelled": none of S stays
\* pending, and every other request is left as it was.
C10_CancelExactlySession ==
  [][permLast'.op = "cancel" =>
       \A r \in PermReqs :
         IF permReq[r].pc = "pending"
            /\ permReq[r].session = permLast'.session
         THEN /\ permReq'[r].pc = "resolved"
              /\ permReq'[r].outcome = "cancelled"
              /\ permReq'[r].session = permReq[r].session
         ELSE permReq'[r] = permReq[r]]_vars

C10_Witness ==
  /\ permLast.op = "cancel"
  /\ Cardinality({r \in PermReqs :
                    /\ permReq[r].session = permLast.session
                    /\ permReq[r].outcome = "cancelled"}) = 2
  /\ \E r \in PermReqs :
       permReq[r].pc = "pending" /\ permReq[r].session # permLast.session

\* C11: a pending interactive permission request that gets neither a client
\* reply nor a session cancel is resolved by its timeout timer, with
\* {outcome: "selected", optionId: "reject-once"}.
C11_TimeoutRejectsOnce ==
  /\ \A r \in PermReqs :
       (permReq[r].pc = "pending") ~> (permReq[r].pc = "resolved")
  /\ [](\A r \in PermReqs :
          (permReq[r].pc = "resolved" /\ permReq[r].by \notin {"reply", "cancel"})
            => /\ permReq[r].outcome = "selected"
               /\ permReq[r].optionId = "reject-once")

C11_Witness ==
  \E r \in PermReqs :
    /\ permReq[r].pc = "resolved" /\ permReq[r].by = "timeout"
    /\ \E q \in PermReqs : permReq[q].by = "cancel"

(***************************************************************************)
(* Claims on the terminal helpers                                          *)
(***************************************************************************)
\* what the client sees of a notification: sub-kind, tool kind, status,
\* title and content
Shown(n) == <<n.sub, n.kind, n.status, n.title, n.content>>

\* C12: executeWithProgress (default title) emits, in order,
\* tool_call(kind=execute, status=in_progress, title "$ <command> <args>"),
\* a tool_call_update with the terminal content of the created terminal,
\* and one final tool_call_update, completed for exit code 0 and failed
\* otherwise.
C12_ProgressNotifications ==
  (helper.kind = "progress" /\ helper.result = "returned" /\ ~helper.custom)
    => /\ Len(helper.notifs) = 3
       /\ Shown(helper.notifs[1]) =
            <<"tool_call", "execute", "in_progress", "$ command args", <<>>>>
       /\ helper.notifs[2].sub = "tool_call_update"
       /\ helper.notifs[2].content = <<"terminal", TermId>>
       /\ helper.notifs[3].sub = "tool_call_update"
       /\ helper.notifs[3].status =
            IF helper.exit = "zero" THEN "completed" ELSE "failed"

Index(s, c) == CHOOSE i \in DOMAIN s : s[i] = c /\ \A j \in 1..(i-1) : s[j] # c

\* C13: when a helper that created a terminal returns or throws, release
\* has been called on the terminal, on every path (normal exit, timeout,
\* error of waitForExit, currentOutput or kill).
C13_AlwaysReleased ==
  (helper.pc = "done" /\ helper.calls # <<>>)
    => "release" \in Range(helper.calls)

C13_Witness ==
  /\ helper.pc = "done" /\ helper.result = "thrown"
  /\ helper.kind = "timeout" /\ helper.timerFired
  /\ "release" \in Range(helper.calls)

\* C14: in executeWithTimeout, once the timer has fired before waitForExit
\* resolved, kill has been called, any release comes after the kill, and a
\* result that is returned reports timedOut = true.
C14_KillBeforeRelease ==
  (helper.kind = "timeout" /\ helper.timerFired)
    => /\ "kill" \in Range(helper.calls)
       /\ "release" \in Range(helper.calls)
            => Index(helper.calls, "kill") < Index(helper.calls, "release")
       /\ helper.result = "returned" => helper.resTimedOut

C14_Witness ==
  /\ helper.kind = "timeout" /\ helper.timerFired
  /\ helper.result = "returned" /\ helper.resTimedOut
  /\ helper.calls =
       <<"waitForExit", "kill", "waitForExit", "currentOutput", "release">>

\* C15: when shutdown() has completed, totalCreated - totalDestroyed equals
\* the number of connections held in the pool.
C15_CreatedMinusDestroyed ==
  sd.pc = "done"
    => metrics.totalCreated - metrics.totalDestroyed = PoolSize

C15_Witness ==
  /\ sd.pc = "done"
  /\ metrics.totalDestroyed >= 2
  /\ PoolSize >= 1

(***************************************************************************)
(* Claims on the dispatcher                                                *)
(***************************************************************************)
StartsWith(s, prefix) ==
  Len(s) >= Len(prefix) /\ SubSeq(s, 1, Len(prefix)) = prefix

\* required keys that the parameters object lacks or holds null/undefined
\* for
BadKeys(d) ==
  {i \in DOMAIN d.required : d.params.vals[d.required[i]] # "value"}

\* the execution found its tool, got an object, and a required key is
\* missing or null/undefined
LacksRequired(d) ==
  /\ d.result # "none" /\ d.found
  /\ d.params.shape = "object"
  /\ BadKeys(d) # {}

\* C16 (as stated): such an execution never invokes the handler and returns
\* {success:false} with an error starting with "Missing required parameter: ".
C16_MissingRequired ==
  LacksRequired(disp)
    => /\ ~disp.handlerCalled
       /\ disp.result = "returned" /\ ~disp.success
       /\ StartsWith(disp.error, <<"Missing required parameter: ">>)

\* C16 (amended): such an execution never invokes the handler and returns
\* {success:false} with the error "Invalid parameters for <name>: " followed
\* by "Missing required parameter: <key>" when the first offending key is
\* absent and by "Parameter <key> cannot be null or undefined" when it holds
\* null or undefined.
C16_InvalidParameters ==
  LacksRequired(disp)
    => LET i == CHOOSE i \in BadKeys(disp) : \A j \in BadKeys(disp) : i <= j
           k == disp.required[i]
       IN /\ ~disp.handlerCalled
          /\ disp.result = "returned" /\ ~disp.success
          /\ disp.error =
               <<"Invalid parameters for ", "tool", ": ">> \o
               (IF disp.params.vals[k] = "absent"
                THEN <<"Missing required parameter: ", k>>
                ELSE <<"Parameter ", k, " cannot be null or undefined">>)

C16_Witness ==
  /\ LacksRequired(disp)
  /\ disp.required = <<"content", "path">>
  /\ disp.params.vals["content"] = "value"
  /\ disp.params.vals["path"] = "undefined"
  /\ disp.session

\* C17: the dispatcher never throws to its caller; every failure, also an
\* exception of the handler or of the tool-call reporting, is returned as
\* {success:false, error}.
C17_NeverThrows == disp.result # "thrown"

\* C18 (as stated): a finished execution has emitted tool-call
\* notifications if and only if a session id was supplied.
C18_ReportIffSession ==
  \A t \in Execs :
    exec[t].pc = "returned"
      => ((exec[t].session # NoSession)
            <=> (exec[t].id # 0 /\ notifs[exec[t].id] # <<>>))

\* C18 (amended): an execution without a session id emits none; an
\* execution with a session id emits them whenever its tool is found and its
\* parameters are valid, whatever the handler's outcome (an unknown tool or
\* invalid parameters return before any report).
C18_ReportIffSessionAndValid ==
  \A t \in Execs :
    exec[t].pc = "returned"
      => /\ exec[t].session = NoSession => exec[t].id = 0
         /\ (exec[t].session # NoSession /\ exec[t].outcome # "none")
              => (exec[t].id # 0 /\ notifs[exec[t].id] # <<>>)
         /\ (exec[t].session # NoSession /\ exec[t].outcome = "none")
              => exec[t].id = 0

C18_Witness ==
  /\ \E t \in Execs :
       /\ exec[t].pc = "returned" /\ exec[t].session # NoSession
       /\ exec[t].outcome = "throw" /\ notifs[exec[t].id] # <<>>
  /\ \E t \in Execs :
       /\ exec[t].pc = "returned" /\ exec[t].session = NoSession
       /\ exec[t].outcome = "success"

(***************************************************************************)
(* Claims on the HTTP response                                             *)
(***************************************************************************)
\* the messages accepted by the sink before operation i
WrittenBefore(i) ==
  {j \in 1..(i - 1) : wlog[j].op = "write" /\ wlog[j].ok}

\* operation i closed or aborted the stream (it reached the sink)
EndsStream(i) ==
  /\ wlog[i].op \in {"close", "abort"}
  /\ wlog[i].ok /\ wlog[i].why = "none"

\* C19: the response of a request is determined by what happened on the
\* writable side: status 200 with the message as JSON body when one message
\* was written and the stream was closed, 204 with no body when it was
\* closed without a message, and 500 with a JSON-RPC -32603 envelope when
\* the stream was aborted or the message could not be serialised.
C19_StatusByWritableSide ==
  \A i \in DOMAIN wlog :
    EndsStream(i) =>
      /\ Len(responses) = 1
      /\ LET r == responses[1] IN
         IF wlog[i].op = "abort" \/ (WrittenBefore(i) # {}
                                     /\ responseBuffer = "cyclic")
         THEN /\ r.status = 500
              /\ Len(r.body) = 4 /\ r.body[1] = "json"
              /\ r.body[2] = "error" /\ r.body[3] = -32603
         ELSE IF WrittenBefore(i) = {}
         THEN r.status = 204 /\ r.body = <<>>
         ELSE r.status = 200 /\ r.body = <<"json", responseBuffer>>

C19_Witness ==
  /\ Len(wlog) = 3
  /\ wlog[1].op = "write" /\ wlog[1].ok
  /\ EndsStream(2) /\ wlog[2].op = "close"
  /\ wlog[3].op = "abort"
  /\ responses = <<[status |-> 200, body |-> <<"json", "m2">>]>>

(***************************************************************************)
(* Claims on the filesystem tools                                          *)
(***************************************************************************)
\* C20: a read_file or write_file call whose client call fails with a
\* transient error is attempted again: it ends on a transient client
\* failure only after `retries` further attempts, each attempt number n
\* preceded by a wait of retryDelay*n (here with a logger that never
\* throws).
C20_TransientRetried ==
  (fs.pc = "done" /\ ~fs.escaped /\ fs.lastClient = "transient")
    => /\ fs.attempt = fs.maxRetries
       /\ fs.calls = fs.maxRetries + 1
       /\ fs.delays = [n \in 1..fs.maxRetries |-> n]

(***************************************************************************)
(* Claims on the pool's hand-out and its waiter queue                      *)
(***************************************************************************)
\* C26: the pool never hands the same connection to two acquirers without a
\* release in between: no two callers hold the same connection at once.
C26_ExclusiveHandout ==
  \A a, b \in Acquirers :
    (a # b /\ acq[a].pc = "holding" /\ acq[b].pc = "holding")
      => acq[a].conn # acq[b].conn

\* C27: after a parked acquire has failed with the acquire timeout, the
\* waiter queue holds no entry for that acquirer.
C27_TimeoutLeavesQueue ==
  \A a \in Acquirers :
    (acq[a].pc = "failed" /\ acq[a].err = "timeout")
      => a \notin Range(waitingQueue)

\* the acquirer releases a connection the pool knows
Releases(a) ==
  /\ acq[a].pc = "holding" /\ acq'[a].pc = "released"
  /\ acq[a].conn \in ConnIds(connections)

\* the queue positions of the acquirers that are still waiting
StillWaiting == {i \in DOMAIN waitingQueue : acq[waitingQueue[i]].pc = "parked"}

\* C28: parked acquirers are served in FIFO order: each release that finds
\* acquirers still waiting hands the released connection to the one among
\* them that has waited longest.
C28_FifoService ==
  [][\A a \in Acquirers :
       (Releases(a) /\ StillWaiting # {})
         => LET i == CHOOSE i \in StillWaiting : \A j \in StillWaiting : i <= j
                w == waitingQueue[i]
            IN acq'[w].pc = "resolved" /\ acq'[w].conn = acq[a].conn]_vars

\* C29: no wake-up is lost: whenever a connection is released while an
\* acquirer that has not timed out is parked, a still-waiting acquirer
\* receives a connection.
C29_NoLostWakeup ==
  [][\A a \in Acquirers :
       (Releases(a) /\ \E w \in Acquirers : acq[w].pc = "parked")
         => \E w \in Acquirers :
              acq[w].pc = "parked" /\ acq'[w].pc = "resolved"]_vars

\* C30: shutdown() rejects every acquirer that is parked: in the step that
\* completes the shutdown every acquirer still parked fails with the
\* shutdown error, none stays pending, and the waiter queue is empty.
C30_ShutdownRejectsParked ==
  [][(sd.pc # "done" /\ sd'.pc = "done")
       => /\ waitingQueue' = <<>>
          /\ \A a \in Acquirers :
               acq[a].pc = "parked"
                 => acq'[a].pc = "failed" /\ acq'[a].err = "shutdown"]_vars

C30_Witness ==
  /\ sd.pc = "done" /\ waitingQueue = <<>>
  /\ Cardinality({a \in Acquirers :
                    acq[a].parked /\ acq[a].err = "shutdown"}) = 2

(***************************************************************************)
(* Claims on the reported locations                                        *)
(***************************************************************************)
\* the reported parameters set exactly the given path keys and `files`
Only(p, keys, files) ==
  /\ \A k \in {"path", "source", "sourcePath", "destinationPath",
               "destination"} : k \notin DOMAIN keys => p[k] = "absent"
  /\ \A k \in DOMAIN keys : p[k] = keys[k]
  /\ p.files = files

NoFiles == [kind |-> "absent", items |-> <<>>]

C22_StopsAtFirstFailure ==
  (seqx.stopOnError /\ seqx.result = "returned") =>
    LET k == Len(seqx.results) IN
    /\ seqx.started = [i \in 1..k |-> i]
    /\ \A i \in 1..(k - 1) : seqx.results[i] = "zero"
    /\ k < seqx.n => (k > 0 /\ seqx.results[k] # "zero")

C22_Witness ==
  /\ seqx.stopOnError /\ seqx.result = "returned"
  /\ seqx.n = 3
  /\ seqx.results = <<"zero", "nonzero">>

(***************************************************************************)
(* Claims on the default permission policy                                 *)
(***************************************************************************)
\* C23: with no client prompt wired a valid permission request is answered
\* by tool-call kind: read, search, think and fetch select the first
\* allow_* option, edit, delete, move and execute select the first reject_*
\* option, and any other kind selects the first option.
C23_DefaultPolicy ==
  (pol.pc = "done" /\ pol.valid) =>
    /\ pol.outcome = "selected"
    /\ pol.optionId \in DOMAIN pol.options
    /\ \A i \in DOMAIN pol.options :
         /\ ( /\ pol.kind \in {"read", "search", "think", "fetch"}
              /\ pol.options[i] \in {"allow_once", "allow_always"}
              /\ \A j \in 1..(i - 1) :
                   pol.options[j] \notin {"allow_once", "allow_always"} )
              => pol.optionId = i
         /\ ( /\ pol.kind \in {"edit", "delete", "move", "execute"}
              /\ pol.options[i] \in {"reject_once", "reject_always"}
              /\ \A j \in 1..(i - 1) :
                   pol.options[j] \notin {"reject_once", "reject_always"} )
              => pol.optionId = i
    /\ pol.kind \in {"switch_mode", "other"} => pol.optionId = 1

C23_Witness ==
  /\ pol.pc = "done" /\ pol.valid
  /\ pol.kind = "execute"
  /\ pol.options = <<"allow_once", "allow_always", "reject_once">>
  /\ pol.optionId = 3

C25_RegisterUnregisterRestores ==
  (reg.last.op = "register-unregister" /\ reg.last.fresh)
    => reg.now = reg.before

(***************************************************************************)
(* Claims on the tracked tool call entries                                 *)
(***************************************************************************)
\* C31: at every moment every tracked tool call has its end time set if and
\* only if its status is completed or failed, also when it was first
\* reported with status failed.
C31_EndedIffTerminal ==
  \A id \in DOMAIN activeToolCalls :
    activeToolCalls[id].ended <=> activeToolCalls[id].status \in Terminal

\* C32: every session/update notification emitted for one toolCallId
\* carries the session id under which the tool call was reported, whatever
\* session id later update, complete or fail calls pass in.
C32_OneSessionPerToolCall ==
  \A id \in Execs : \A i \in DOMAIN notifs[id] :
    notifs[id][i].sessionId = notifs[id][1].sessionId

\* C33: a tool call that reached status completed or failed, by whichever
\* operation, stays in the active map until the eviction timer armed for it
\* (about 30 s later) removes it.
C33_TerminalStaysUntilEvicted ==
  [][\A id \in DOMAIN activeToolCalls :
       (activeToolCalls[id].status \in Terminal
          /\ id \notin DOMAIN activeToolCalls')
         => id \in evictTimers \ evictTimers']_vars


\* C34: cancelling a session is a no-op for a tool call that is already
\* completed or failed: the call of cancelSessionToolCalls emits no
\* notification for it and leaves its tracked entry in the map, unchanged.
C34_CancelSkipsTerminal ==
  [][(cancel.pc \in {"idle", "done"} /\ cancel'.pc \in {"looping", "done"}
        /\ cancel' # cancel)
       => \A id \in DOMAIN activeToolCalls :
            activeToolCalls[id].status \in Terminal
              => /\ notifs'[id] = notifs[id]
                 /\ id \in DOMAIN activeToolCalls'
                 /\ activeToolCalls'[id] = activeToolCalls[id]]_vars

(***************************************************************************)
(* Claims on executeWithProgress                                           *)
(***************************************************************************)
\* the tool call of the helper has been notified with a terminal status
NotifiedTerminal ==
  \E i \in DOMAIN helper.notifs : helper.notifs[i].status \in Terminal

\* C39: every tool call reported by executeWithProgress eventually reaches
\* status completed or failed, also when waitForExit or currentOutput
\* raises an error after the tool call was reported as in_progress.
C39_ReportedEventuallyTerminal ==
  (helper.kind = "progress" /\ helper.notifs # <<>>) ~> NotifiedTerminal

\* C40: the periodic activity timer started by executeWithProgress is
\* stopped on every exit path: once the call has returned or thrown, no
\* interval installed by it is still running.
C40_PollTimerStopped ==
  helper.pc = "done" => ~helper.pollTimer

(***************************************************************************)
(* Claims on the pool gauges, repeated release and shutdown                *)
(***************************************************************************)
\* C35: in every reachable state of the pool activeConnections >= 0,
\* idleConnections >= 0 and activeConnections + idleConnections is the
\* number of connections held in the pool.
C35_GaugesConsistent ==
  /\ metrics.activeConnections >= 0
  /\ metrics.idleConnections >= 0
  /\ metrics.activeConnections + metrics.idleConnections = Len(connections)

\* C36: calling the release closure of one acquire a second time changes
\* neither the connection's in-use state, nor the metrics, nor the waiter
\* queue.
C36_ReleaseIdempotent ==
  [][\A a \in Acquirers :
       (acq[a].pc = "released" /\ acq'[a].pc = "releasedTwice")
         => /\ connections' = connections
            /\ metrics' = metrics
            /\ waitingQueue' = waitingQueue]_vars

\* C37: once shutdown() has completed, an acquire that is issued neither
\* starts creating a connection nor is handed one.
C37_NoAcquireAfterShutdown ==
  [][sd.pc = "done" =>
       \A a \in Acquirers :
         acq[a].pc = "idle" => acq'[a].pc \notin {"creating", "holding"}]_vars

====
